---- MODULE Spec2Model ----
(***************************************************************************)
(* Personal Finance API: token codec, principal resolver, login, the       *)
(* per-principal endpoints' gate, the period window calculator, the        *)
(* category aggregator and the currency conversion endpoint.               *)
(*                                                                         *)
(* One module, several specifications, each over the same variables:       *)
(*   SpecToken    create_access_token / verify_token under a clock         *)
(*   Spec         the store and the HTTP endpoints (register, login, the   *)
(*                gated data endpoints)                                    *)
(*   SpecConvert  convert_currency against an upstream rate service        *)
(*   SpecPeriod   the start-of-window computation of both routers          *)
(*   SpecBreakdown the percentage computation of get_category_breakdown    *)
(*                                                                         *)
(* Optional values (Python's Optional[T]) are sequences of length <= 1:    *)
(* <<>> is None and <<x>> is the value x.                                  *)
(***************************************************************************)
EXTENDS Integers, Sequences, FiniteSets, TLC

VARIABLES
    now,        \* the wall clock, in ticks (TicksPerSec ticks to the second)
    held,       \* the bearer token the caller holds: how it was obtained, and the token
    verified,   \* the last verify_token call: <<>> or <<[token, at, res]>>
    users,      \* the users table: rows [id, username, email, hashed_password, is_active]
    prefs,      \* the user_preferences table: rows [id, user_id]
    txns,       \* the transactions table
    budgets,    \* the budgets table
    last,       \* the last HTTP response, with what its handler resolved and touched
    conv,       \* a currency conversion: the request, the rate service's answer, the response
    win,        \* a period window: the period tag, the instant `now`, the start dates
    bd,         \* a category breakdown: the grouped rows and the result
    bp,         \* a budget progress: the caller, the two tables and the result
    tf,         \* a data transformation: the request body and the response
    rq          \* the requests in flight of the handlers that run step by step

tokVars == <<now, held, verified>>

storeVars == <<users, prefs, txns, budgets>>

\* the variables of the specifications of single computations
pureVars == <<conv, win, bd, bp, tf, rq>>

vars == <<now, held, verified, users, prefs, txns, budgets, last, conv, win, bd,
         bp, tf, rq>>

\* the variables SpecToken leaves alone
notToken == <<users, prefs, txns, budgets, last, pureVars>>

None == <<>>

Some(x) == <<x>>

(***************************************************************************)
(* Time.  datetime values are instants in ticks; a JWT "exp" claim is an   *)
(* integer number of seconds (timegm(dt.utctimetuple()) drops the          *)
(* fraction of the second).                                                *)
(***************************************************************************)
TicksPerSec == 2

SecondsPerMinute == 60

\* settings.access_token_expire_minutes
access_token_expire_minutes == 30

\* how many ticks past each multiple of the default lifetime the clock visits
WindowTicks == 4

\* how many default lifetimes the clock may jump over
MaxRounds == 1

\* the largest expires_delta a caller supplies, in ticks
MaxTtl == 3

\* timedelta(minutes = m), in ticks
timedelta_minutes(m) == m * SecondsPerMinute * TicksPerSec

DefaultTtl == timedelta_minutes(access_token_expire_minutes)

\* timegm(dt.utctimetuple()): the instant's whole second
SecOf(t) == t \div TicksPerSec

(***************************************************************************)
(* Tokens.  A JSON value of the payload is [t |-> its type, v |-> its      *)
(* text]; a token is its payload (the claims sub and exp, each optional),  *)
(* the key that signed it, the algorithm of its header, and whether the    *)
(* string is a well-formed JWS at all.                                     *)
(***************************************************************************)
JStr(s) == [t |-> "str", v |-> s]

JInt(s) == [t |-> "int", v |-> s]

\* settings.secret_key
secret_key == "your-secret-key-change-in-production"

\* settings.algorithm
algorithm == "HS256"

Usernames == {"alice", "bob"}

\* jwt.encode(to_encode, key, algorithm): exp, a datetime, is stored as its whole second
jwt_encode(sub, expire, key, alg) ==
    [sub |-> sub, exp |-> Some(SecOf(expire)), key |-> key, alg |-> alg, wellformed |-> TRUE]

\* create_access_token(data, expires_delta) called at instant t; data is {"sub": sub} or {}
\* `if expires_delta:` is Python truthiness: None and timedelta(0) are both false
create_access_token(sub, expires_delta, t) ==
    LET truthy == expires_delta # None /\ expires_delta[1] # 0
        expire == IF truthy THEN t + expires_delta[1] ELSE t + DefaultTtl
    IN  jwt_encode(sub, expire, secret_key, algorithm)

Ok(payload) == [kind |-> "ok", payload |-> payload]

\* a raised exception: its class and, for an HTTPException, status_code and detail
Exc(name) == [name |-> name]

Raise(exc) == [kind |-> "raise", exc |-> exc]

\* the exceptions `except JWTError` catches: JWTError and its subclasses
JWTErrors == {"JWTError", "ExpiredSignatureError", "JWTClaimsError"}

\* jose.jwt.decode(token, key, algorithms=[alg]) at instant t: the JWS is verified
\* (well-formed, header algorithm among the allowed ones, signature under key), then
\* the claims: exp, when present, is expired when exp < now in whole seconds; sub,
\* when present, must be a string
jwt_decode(token, key, algs, t) ==
    IF ~token.wellformed THEN Raise(Exc("JWTError"))
    ELSE IF token.alg \notin algs THEN Raise(Exc("JWTError"))
    ELSE IF token.key # key THEN Raise(Exc("JWTError"))
    ELSE IF token.exp # None /\ token.exp[1] < SecOf(t) THEN Raise(Exc("ExpiredSignatureError"))
    ELSE IF token.sub # None /\ token.sub[1].t # "str" THEN Raise(Exc("JWTClaimsError"))
    ELSE Ok([sub |-> token.sub, exp |-> token.exp])

\* TokenData(username=username): pydantic accepts a str (or None) and raises otherwise
TokenData(username) ==
    IF username = None \/ username[1].t = "str" THEN [kind |-> "ok", username |-> username]
    ELSE Raise(Exc("ValidationError"))

NoneResult == [kind |-> "none"]

\* the rest of verify_token once jwt.decode returned payload d: the subject claim
AfterDecode(d) ==
    IF d.payload.sub = None THEN NoneResult ELSE TokenData(d.payload.sub)

\* verify_token's handling of jwt.decode's outcome d, with `except ExpiredSignatureError`
\* in place of `except JWTError`
verify_token_CatchExpiredOnly(d) ==
    IF d.kind = "raise"
    THEN IF d.exc.name = "ExpiredSignatureError" THEN NoneResult ELSE d
    ELSE AfterDecode(d)

\* verify_token's handling of jwt.decode's outcome d: `except JWTError` returns None,
\* any other exception escapes
verify_token_except(d) ==
    IF d.kind = "raise"
    THEN IF d.exc.name \in JWTErrors THEN NoneResult ELSE d
    ELSE AfterDecode(d)

\* jwt.decode with the signature left unchecked (options verify_signature = False)
decode_Unverified(token, t) ==
    IF ~token.wellformed THEN Raise(Exc("JWTError"))
    ELSE IF token.exp # None /\ token.exp[1] < SecOf(t) THEN Raise(Exc("ExpiredSignatureError"))
    ELSE IF token.sub # None /\ token.sub[1].t # "str" THEN Raise(Exc("JWTClaimsError"))
    ELSE Ok([sub |-> token.sub, exp |-> token.exp])

\* payload = jwt.decode(token, settings.secret_key, algorithms=[settings.algorithm])
decode(token, t) == jwt_decode(token, secret_key, {algorithm}, t)

\* verify_token(token) at instant t: the username, NoneResult, or an escaping exception
verify_token(token, t) == verify_token_except(decode(token, t))

(***************************************************************************)
(* SpecToken: a caller obtains a token (issued by create_access_token, or  *)
(* minted elsewhere), the clock advances, and verify_token is called.      *)
(***************************************************************************)
\* the payloads' subjects a token is issued for: a handle, none, or a non-string
Subjects == {None} \cup {Some(JStr(u)) : u \in Usernames} \cup {Some(JInt("123"))}

\* expires_delta: None, or a timedelta of 0..MaxTtl ticks
Deltas == {None} \cup {Some(d) : d \in 0..MaxTtl}

\* tokens not made by create_access_token: another key, another algorithm, not a JWS
\* at all, or signed with the shared secret by another holder of it
MintedTokens ==
    {[sub |-> s, exp |-> e, key |-> k, alg |-> a, wellformed |-> w] :
        s \in {None, Some(JStr("alice")), Some(JInt("123"))},
        e \in {None, Some(1)},
        k \in {secret_key, "other-key"},
        a \in {algorithm, "none"},
        w \in BOOLEAN}

NoToken == [origin |-> "none"]

MaxNow == MaxRounds * DefaultTtl + WindowTicks

NoResponse == [kind |-> "none"]

Idle == [state |-> "idle"]

PureIdle ==
    /\ conv = Idle
    /\ win = Idle
    /\ bd = Idle
    /\ bp = Idle
    /\ tf = Idle
    /\ rq = Idle

StoreIdle ==
    /\ users = {}
    /\ prefs = {}
    /\ txns = {}
    /\ budgets = {}
    /\ last = NoResponse

TokenIdle ==
    /\ now = 0
    /\ held = NoToken
    /\ verified = None

TokenInit ==
    /\ TokenIdle
    /\ StoreIdle
    /\ PureIdle

\* the clock moves on by a tick, a second or a whole default lifetime
Advance ==
    \E d \in {1, TicksPerSec, DefaultTtl} :
        /\ now + d <= MaxNow
        /\ (now + d) % DefaultTtl <= WindowTicks
        /\ now' = now + d
        /\ verified' = None
        /\ UNCHANGED <<held, notToken>>

\* the caller is issued a token: create_access_token(data, expires_delta)
Issue ==
    \E s \in Subjects, delta \in Deltas :
        /\ held' = [origin |-> "issued", sub |-> s, delta |-> delta, at |-> now,
                    token |-> create_access_token(s, delta, now)]
        /\ verified' = None
        /\ UNCHANGED <<now, notToken>>

\* the caller presents a token from elsewhere
Mint ==
    \E tok \in MintedTokens :
        /\ held' = [origin |-> "minted", token |-> tok]
        /\ verified' = None
        /\ UNCHANGED <<now, notToken>>

\* verify_token(held token) at the current instant
Verify ==
    /\ held # NoToken
    /\ verified' = Some([token |-> held.token, at |-> now, res |-> verify_token(held.token, now)])
    /\ UNCHANGED <<now, held, notToken>>

TokenNext == Advance \/ Issue \/ Mint \/ Verify

SpecToken == TokenInit /\ [][TokenNext]_vars

(***************************************************************************)
(* Claims about the token codec, under SpecToken.                          *)
(***************************************************************************)
IssuedFor(u, delta) ==
    /\ held.origin = "issued"
    /\ held.sub = Some(JStr(u))
    /\ held.delta = delta

\* C2: a token issued for 'alice' with ttl = 0 is never validated to its subject,
\* at the instant of issuance or later.
C2_Ttl0NeverValid ==
    (verified # None /\ IssuedFor("alice", Some(0))) => verified[1].res.kind # "ok"

\* what the token must satisfy for verify_token to return its subject at instant t
\* (lt: whether the expiry is compared strictly, in ticks, or by whole seconds)
Signed(tok) ==
    /\ tok.wellformed
    /\ tok.key = secret_key
    /\ tok.alg = algorithm

C6_IssueValidateRoundTrip ==
    \A u \in Usernames, delta \in Deltas :
        IssuedFor(u, delta) =>
            LET ttl == IF delta # None THEN delta[1] ELSE DefaultTtl
                expiry == held.at + ttl
            IN  /\ held.token.exp = Some(SecOf(expiry))
                /\ verified # None =>
                        /\ verified[1].at < expiry =>
                                verified[1].res = [kind |-> "ok", username |-> Some(JStr(u))]
                        /\ verified[1].at > expiry => verified[1].res = NoneResult

(***************************************************************************)
(* The store and the HTTP endpoints (Spec).  Each endpoint is one action:  *)
(* its dependencies (the bearer token resolved to the current user), then  *)
(* its body, then the response.  The store never fails a query or a        *)
(* commit here.                                                            *)
(***************************************************************************)
HTTP_200_OK == 200

HTTP_201_CREATED == 201

HTTP_400_BAD_REQUEST == 400

HTTP_401_UNAUTHORIZED == 401

HTTP_404_NOT_FOUND == 404

HTTP_500_INTERNAL_SERVER_ERROR == 500

HTTP_503_SERVICE_UNAVAILABLE == 503

\* the most rows the transactions table holds
MaxTxns == 1

\* the most rows the budgets table holds
MaxBudgets == 1

Emails == {"a@x.org", "b@x.org"}

Passwords == {"password-1", "password-2"}

Salts == {"salt-1"}

HTTPException(status_code, detail) ==
    [name |-> "HTTPException", status_code |-> status_code, detail |-> detail]

\* bcrypt: the digest of the password under a salt, stored with the salt
bcrypt(password, salt) == [salt |-> salt, digest |-> <<salt, password>>]

\* get_password_hash(password), with the salt the scheme draws
get_password_hash(password, salt) == bcrypt(password, salt)

\* verify_password(plain_password, hashed_password): the digest recomputed under the
\* stored salt
verify_password(plain_password, hashed_password) ==
    bcrypt(plain_password, hashed_password.salt) = hashed_password

\* query.first(): a row of the result, or None
First(rows) == IF rows = {} THEN None ELSE Some(CHOOSE r \in rows : TRUE)

\* db.query(User).filter(User.username == username).first()
UserByUsername(tbl, username) == First({u \in tbl : u.username = username})

\* db.query(User).filter(User.email == email).first()
UserByEmail(tbl, email) == First({u \in tbl : u.email = email})

MaxOf(S) == CHOOSE m \in S : \A x \in S : x <= m

\* the next autoincrement primary key of a table
NextId(tbl) == IF tbl = {} THEN 1 ELSE 1 + MaxOf({r.id : r \in tbl})

credentials_exception == HTTPException(HTTP_401_UNAUTHORIZED, "Could not validate credentials")

inactive_exception == HTTPException(HTTP_400_BAD_REQUEST, "Inactive user")

\* get_current_user after the lookup: no such user, an inactive user, or the user
AfterLookup(user) ==
    IF user = None THEN Raise(credentials_exception)
    ELSE IF user[1].is_active = FALSE THEN Raise(inactive_exception)
    ELSE [kind |-> "ok", user |-> user[1]]

\* get_current_user after verify_token returned (or raised) token_data
AfterVerify(token_data, tbl) ==
    IF token_data.kind = "raise" THEN token_data
    ELSE IF token_data = NoneResult THEN Raise(credentials_exception)
    ELSE AfterLookup(UserByUsername(tbl, token_data.username[1].v))

\* the try block of get_current_user: the user, or the exception raised in it
get_current_user_try(token, t, tbl) == AfterVerify(verify_token(token, t), tbl)

\* get_current_user's handler: `except Exception` catches whatever the try block raised,
\* the HTTPExceptions included, and raises credentials_exception
get_current_user_except(r) ==
    IF r.kind = "raise" THEN Raise(credentials_exception) ELSE r

\* get_current_user(credentials, db)
get_current_user(token, t, tbl) == get_current_user_except(get_current_user_try(token, t, tbl))

\* the body of get_current_active_user, given what get_current_user returned or raised
ActiveCheck(r) ==
    IF r.kind = "raise" THEN r
    ELSE IF r.user.is_active = FALSE THEN Raise(inactive_exception)
    ELSE r

\* get_current_active_user(current_user = Depends(get_current_user))
get_current_active_user(token, t, tbl) == ActiveCheck(get_current_user(token, t, tbl))

\* authenticate_user after the lookup, with the password left unchecked
PasswordCheck_Skip(user, password) == user

\* authenticate_user after the lookup: no such user, a wrong password, or the user
PasswordCheck(user, password) ==
    IF user = None THEN None
    ELSE IF ~verify_password(password, user[1].hashed_password) THEN None
    ELSE user

\* authenticate_user(db, username, password): the user or None
authenticate_user(tbl, username, password) ==
    PasswordCheck(UserByUsername(tbl, username), password)

\* the row whose username is the subject that token_data carries, if there is one
PrincipalOf(token_data, tbl) ==
    IF token_data.kind = "ok" THEN UserByUsername(tbl, token_data.username[1].v) ELSE None

\* the principal a token names at instant t: the row of the subject it validates to
Principal(token, t, tbl) == PrincipalOf(verify_token(token, t), tbl)

\* http_exception_handler: the response of an endpoint whose dependency or body raised
\* the HTTPException exc
ErrorResponse(exc, principal) ==
    [kind |-> "data", status |-> exc.status_code, detail |-> exc.detail,
     principal |-> principal, actor |-> None, touched |-> {}]

\* the response of a per-principal endpoint that ran as current_user and read or wrote
\* rows owned by `owners`
DataResponse(status, detail, principal, current_user, owners) ==
    [kind |-> "data", status |-> status, detail |-> detail,
     principal |-> principal, actor |-> Some(current_user), touched |-> owners]

StoreInit ==
    /\ TokenIdle
    /\ StoreIdle
    /\ PureIdle

\* request bodies of POST /transactions/ (TransactionCreate), a few of them
TxnInputs ==
    {[amount |-> 5, category |-> None, transaction_type |-> "expense"],
     [amount |-> 7, category |-> Some("Food"), transaction_type |-> "income"]}

\* request bodies of PUT /transactions/{id} (TransactionUpdate): the fields that are set
TxnUpdates == {[amount |-> 7], [category |-> None]}

\* the transaction ids a request may name
TxnIds == 1..(MaxTxns + 1)

\* bearer tokens that no login of this server issued: one signed with the shared
\* secret by another holder of it, one signed with another key
ForeignTokens ==
    {tok \in MintedTokens :
        /\ tok.wellformed /\ tok.alg = algorithm
        /\ tok.sub = Some(JStr("alice")) /\ tok.exp # None}

\* db.query(Transaction).filter(...) with the user_id condition left out
TransactionsOf_AnyOwner(tbl, user_id) == tbl

\* db.query(Transaction).filter(Transaction.user_id == current_user.id)
TransactionsOf(tbl, user_id) == {t \in tbl : t.user_id = user_id}

\* the lookup by id alone, whoever owns the row
TransactionById_AnyOwner(tbl, transaction_id, user_id) ==
    First({t \in tbl : t.id = transaction_id})

\* db.query(Transaction).filter(Transaction.id == transaction_id,
\*                              Transaction.user_id == current_user.id).first()
TransactionById(tbl, transaction_id, user_id) ==
    First({t \in TransactionsOf(tbl, user_id) : t.id = transaction_id})

\* db.query(Budget).filter(Budget.user_id == current_user.id, Budget.is_active == True)
ActiveBudgetsOf(tbl, user_id) == {b \in tbl : b.user_id = user_id /\ b.is_active = TRUE}

\* db.query(UserPreference).filter(UserPreference.user_id == current_user.id).first()
PreferencesOf(tbl, user_id) == First({q \in tbl : q.user_id = user_id})

Owners(rows) == {r.user_id : r \in rows}

\* the loop over transaction_update.dict(), without exclude_unset: a category that the
\* request did not supply is set to its default, None
ApplyUpdate_Unset(row, update_data) ==
    [f \in DOMAIN row |-> IF f \in DOMAIN update_data THEN update_data[f]
                          ELSE IF f = "category" THEN None ELSE row[f]]

\* for field, value in update_data.items(): setattr(transaction, field, value)
ApplyUpdate(row, update_data) ==
    [f \in DOMAIN row |-> IF f \in DOMAIN update_data THEN update_data[f] ELSE row[f]]

\* the dependency of every per-principal endpoint
Gate == get_current_active_user(held.token, now, users)

Who == Principal(held.token, now, users)

not_found == HTTPException(HTTP_404_NOT_FOUND, "Transaction not found")

NotFound(who, current_user) ==
    DataResponse(not_found.status_code, not_found.detail, who, current_user, {})

\* POST /auth/register
register_user ==
    \E username \in Usernames, email \in Emails, password \in Passwords, salt \in Salts :
        /\ IF UserByUsername(users, username) # None
           THEN /\ last' = [kind |-> "register", status |-> HTTP_400_BAD_REQUEST,
                            detail |-> "Username already registered"]
                /\ UNCHANGED <<users, prefs>>
           ELSE IF UserByEmail(users, email) # None
           THEN /\ last' = [kind |-> "register", status |-> HTTP_400_BAD_REQUEST,
                            detail |-> "Email already registered"]
                /\ UNCHANGED <<users, prefs>>
           ELSE \E id \in {NextId(users)} :
                    /\ users' = users \cup
                            {[id |-> id, username |-> username, email |-> email,
                              hashed_password |-> get_password_hash(password, salt),
                              is_active |-> TRUE]}
                    /\ prefs' = prefs \cup {[id |-> NextId(prefs), user_id |-> id]}
                    /\ last' = [kind |-> "register", status |-> HTTP_201_CREATED, detail |-> ""]
        /\ UNCHANGED <<pureVars, tokVars, txns, budgets>>

\* POST /auth/login; the client keeps the token it is given
login_for_access_token ==
    \E username \in Usernames, password \in Passwords :
        \E user \in {authenticate_user(users, username, password)} :
            /\ IF user = None
               THEN /\ last' = [kind |-> "login", username |-> username, password |-> password,
                                status |-> HTTP_401_UNAUTHORIZED,
                                detail |-> "Incorrect username or password",
                                access_token |-> None]
                    /\ UNCHANGED held
               ELSE \E access_token \in
                        {create_access_token(Some(JStr(user[1].username)),
                            Some(timedelta_minutes(access_token_expire_minutes)), now)} :
                        /\ last' = [kind |-> "login", username |-> username,
                                    password |-> password, status |-> HTTP_200_OK,
                                    detail |-> "", access_token |-> Some(access_token)]
                        /\ held' = [origin |-> "login", token |-> access_token]
            /\ UNCHANGED <<pureVars, now, verified, storeVars>>

\* GET /auth/me
read_users_me ==
    /\ held # NoToken
    /\ \E auth \in {Gate}, who \in {Who} :
        last' = IF auth.kind = "raise" THEN ErrorResponse(auth.exc, who)
                ELSE DataResponse(HTTP_200_OK, "", who, auth.user, {auth.user.id})
    /\ UNCHANGED <<pureVars, tokVars, storeVars>>

\* the body of GET /auth/preferences and of PUT /auth/preferences: the user's row,
\* created when there is none (its other fields are not kept in the model)
PreferencesBody(current_user, who) ==
    \E preferences \in {PreferencesOf(prefs, current_user.id)} :
        \E row \in {IF preferences = None
                    THEN [id |-> NextId(prefs), user_id |-> current_user.id]
                    ELSE preferences[1]} :
            /\ prefs' = prefs \cup {row}
            /\ last' = DataResponse(HTTP_200_OK, "", who, current_user, Owners({row}))

\* GET /auth/preferences
get_user_preferences ==
    /\ held # NoToken
    /\ \E auth \in {Gate}, who \in {Who} :
        IF auth.kind = "raise"
        THEN last' = ErrorResponse(auth.exc, who) /\ UNCHANGED prefs
        ELSE PreferencesBody(auth.user, who)
    /\ UNCHANGED <<pureVars, tokVars, users, txns, budgets>>

\* PUT /auth/preferences
update_user_preferences ==
    /\ held # NoToken
    /\ \E auth \in {Gate}, who \in {Who} :
        IF auth.kind = "raise"
        THEN last' = ErrorResponse(auth.exc, who) /\ UNCHANGED prefs
        ELSE PreferencesBody(auth.user, who)
    /\ UNCHANGED <<pureVars, tokVars, users, txns, budgets>>

\* POST /transactions/
create_transaction ==
    /\ held # NoToken
    /\ Cardinality(txns) < MaxTxns
    /\ \E transaction \in TxnInputs, auth \in {Gate}, who \in {Who} :
        IF auth.kind = "raise"
        THEN last' = ErrorResponse(auth.exc, who) /\ UNCHANGED txns
        ELSE \E db_transaction \in
                {[id |-> NextId(txns), user_id |-> auth.user.id,
                  amount |-> transaction.amount, category |-> transaction.category,
                  transaction_type |-> transaction.transaction_type, date |-> now,
                  updated_at |-> None]} :
                /\ txns' = txns \cup {db_transaction}
                /\ last' = DataResponse(HTTP_201_CREATED, "", who, auth.user,
                                        Owners({db_transaction}))
    /\ UNCHANGED <<pureVars, tokVars, users, prefs, budgets>>

\* GET /transactions/ with its optional transaction_type and category filters (the
\* date filters, the ordering and the paging select among the same rows)
get_transactions ==
    /\ held # NoToken
    /\ \E transaction_type \in {None, Some("expense")}, category \in {None, Some("Food")},
          auth \in {Gate}, who \in {Who} :
        last' =
            IF auth.kind = "raise" THEN ErrorResponse(auth.exc, who)
            ELSE DataResponse(HTTP_200_OK, "", who, auth.user,
                    Owners({t \in TransactionsOf(txns, auth.user.id) :
                                /\ transaction_type # None =>
                                        t.transaction_type = transaction_type[1]
                                /\ category # None => t.category = category}))
    /\ UNCHANGED <<pureVars, tokVars, storeVars>>

\* GET /transactions/{transaction_id}: the handler called with transaction_id
get_transaction_by(transaction_id) ==
    \E auth \in {Gate}, who \in {Who} :
        IF auth.kind = "raise"
        THEN last' = ErrorResponse(auth.exc, who)
        ELSE \E transaction \in {TransactionById(txns, transaction_id, auth.user.id)} :
                last' = IF transaction = None THEN NotFound(who, auth.user)
                        ELSE DataResponse(HTTP_200_OK, "", who, auth.user,
                                          Owners({transaction[1]}))

get_transaction ==
    /\ held # NoToken
    /\ \E transaction_id \in TxnIds : get_transaction_by(transaction_id)
    /\ UNCHANGED <<pureVars, tokVars, storeVars>>

\* db.commit() of a row the handler set attributes of: the UPDATE is sent when a column
\* changed, and updated_at = Column(..., onupdate=func.now()) is stamped with it
onupdate(row, updated, at) ==
    IF updated = row THEN row ELSE [updated EXCEPT !.updated_at = Some(at)]

\* PUT /transactions/{transaction_id}: the handler called with transaction_id and the body
update_transaction_by(transaction_id, transaction_update) ==
    \E auth \in {Gate}, who \in {Who} :
        IF auth.kind = "raise"
        THEN last' = ErrorResponse(auth.exc, who) /\ UNCHANGED txns
        ELSE \E transaction \in {TransactionById(txns, transaction_id, auth.user.id)} :
                IF transaction = None
                THEN last' = NotFound(who, auth.user) /\ UNCHANGED txns
                ELSE /\ txns' = (txns \ {transaction[1]})
                                    \cup {onupdate(transaction[1],
                                                    ApplyUpdate(transaction[1],
                                                                transaction_update), now)}
                     /\ last' = DataResponse(HTTP_200_OK, "", who, auth.user,
                                             Owners({transaction[1]}))

update_transaction ==
    /\ held # NoToken
    /\ \E transaction_id \in TxnIds, transaction_update \in TxnUpdates :
            update_transaction_by(transaction_id, transaction_update)
    /\ UNCHANGED <<pureVars, tokVars, users, prefs, budgets>>

\* DELETE /transactions/{transaction_id}: the handler called with transaction_id
delete_transaction_by(transaction_id) ==
    \E auth \in {Gate}, who \in {Who} :
        IF auth.kind = "raise"
        THEN last' = ErrorResponse(auth.exc, who) /\ UNCHANGED txns
        ELSE \E transaction \in {TransactionById(txns, transaction_id, auth.user.id)} :
                IF transaction = None
                THEN last' = NotFound(who, auth.user) /\ UNCHANGED txns
                ELSE /\ txns' = txns \ {transaction[1]}
                     /\ last' = DataResponse(HTTP_200_OK, "Transaction deleted successfully",
                                             who, auth.user, Owners({transaction[1]}))

delete_transaction ==
    /\ held # NoToken
    /\ \E transaction_id \in TxnIds : delete_transaction_by(transaction_id)
    /\ UNCHANGED <<pureVars, tokVars, users, prefs, budgets>>

\* GET /transactions/summary/period: the user's rows on or after the start of the
\* period (every instant of this specification's clock is on one calendar day, so no
\* row is before the start of any period)
get_transaction_summary ==
    /\ held # NoToken
    /\ \E auth \in {Gate}, who \in {Who} :
        last' = IF auth.kind = "raise" THEN ErrorResponse(auth.exc, who)
                ELSE DataResponse(HTTP_200_OK, "", who, auth.user,
                                  Owners(TransactionsOf(txns, auth.user.id)))
    /\ UNCHANGED <<pureVars, tokVars, storeVars>>

\* GET /analytics/transactions/category-breakdown: the user's expense rows of the period
get_category_breakdown ==
    /\ held # NoToken
    /\ \E auth \in {Gate}, who \in {Who} :
        last' = IF auth.kind = "raise" THEN ErrorResponse(auth.exc, who)
                ELSE DataResponse(HTTP_200_OK, "", who, auth.user,
                        Owners({t \in TransactionsOf(txns, auth.user.id) :
                                    t.transaction_type = "expense"}))
    /\ UNCHANGED <<pureVars, tokVars, storeVars>>

\* the rows the spent_query of a budget sums: the user's expense rows, of the budget's
\* category when it has one
SpentRows(tbl, budget, user_id) ==
    {t \in TransactionsOf(tbl, user_id) :
        /\ t.transaction_type = "expense"
        /\ budget.category # None => t.category = budget.category}

\* GET /analytics/budgets/progress: the user's active budgets and, for each, the rows
\* of its spent_query
get_budget_progress ==
    /\ held # NoToken
    /\ \E auth \in {Gate}, who \in {Who} :
        IF auth.kind = "raise"
        THEN last' = ErrorResponse(auth.exc, who)
        ELSE \E bs \in {ActiveBudgetsOf(budgets, auth.user.id)} :
                last' = DataResponse(HTTP_200_OK, "", who, auth.user,
                            Owners(bs) \cup
                            UNION {Owners(SpentRows(txns, b, auth.user.id)) : b \in bs})
    /\ UNCHANGED <<pureVars, tokVars, storeVars>>

\* the store's administrator inserts a budget row (no endpoint writes the table)
SeedBudget ==
    /\ Cardinality(budgets) < MaxBudgets
    /\ \E u \in users, is_active \in BOOLEAN :
        budgets' = budgets \cup {[id |-> NextId(budgets), user_id |-> u.id,
                                  is_active |-> is_active, category |-> None]}
    /\ UNCHANGED <<pureVars, tokVars, users, prefs, txns, last>>

\* the store's administrator clears a user's is_active flag (no endpoint writes it)
Deactivate ==
    /\ \E u \in users :
        /\ u.is_active = TRUE
        /\ users' = (users \ {u}) \cup {[u EXCEPT !.is_active = FALSE]}
    /\ UNCHANGED <<pureVars, tokVars, prefs, txns, budgets, last>>

\* the client presents a bearer token that no login issued
PresentForeign ==
    /\ \E tok \in ForeignTokens : held' = [origin |-> "minted", token |-> tok]
    /\ UNCHANGED <<pureVars, now, verified, storeVars, last>>

Next ==
    \/ register_user
    \/ login_for_access_token
    \/ read_users_me
    \/ get_user_preferences
    \/ update_user_preferences
    \/ create_transaction
    \/ get_transactions
    \/ get_transaction
    \/ update_transaction
    \/ delete_transaction
    \/ get_transaction_summary
    \/ get_category_breakdown
    \/ get_budget_progress
    \/ SeedBudget
    \/ Deactivate
    \/ PresentForeign

Spec == StoreInit /\ [][Next]_vars

(***************************************************************************)
(* Claims about the principal resolver, login and the gate, under Spec.    *)
(***************************************************************************)
\* C1: a request whose token validates to a subject whose principal exists but is
\* inactive fails with 400 'Inactive user', not with the 401 of an invalid token or an
\* unknown principal.
C1_InactiveIs400 ==
    (last.kind = "data" /\ last.principal # None /\ last.principal[1].is_active = FALSE) =>
        /\ last.status = HTTP_400_BAD_REQUEST
        /\ last.detail = "Inactive user"

\* whether a user registered handle u with secret p
Registered(u, p) ==
    \E r \in users, salt \in Salts :
        r.username = u /\ r.hashed_password = get_password_hash(p, salt)

\* C7: a login with a registered handle and its secret returns a bearer token whose
\* subject is the handle; a login with an unknown handle or with another secret issues
\* no token and fails with one and the same 401 response.
C7_LoginIssuesTokenOnlyForRegistered ==
    [][(last' # last /\ last'.kind = "login") =>
            IF Registered(last'.username, last'.password)
            THEN /\ last'.status = HTTP_200_OK
                 /\ last'.access_token # None
                 /\ last'.access_token[1].sub = Some(JStr(last'.username))
                 /\ Signed(last'.access_token[1])
                 /\ held'.token = last'.access_token[1]
            ELSE /\ last'.status = HTTP_401_UNAUTHORIZED
                 /\ last'.detail = "Incorrect username or password"
                 /\ last'.access_token = None
                 /\ held' = held]_vars

\* C7's case: a login was refused for a registered handle with another secret, and the
\* client holds no token
C7_Witness ==
    /\ last.kind = "login"
    /\ last.status = HTTP_401_UNAUTHORIZED
    /\ \E p \in Passwords : p # last.password /\ Registered(last.username, p)
    /\ held = NoToken

\* the rows of a table that a step inserted, deleted or changed
Changed(old, new) == (old \ new) \cup (new \ old)

\* C8: a per-principal endpoint reads or writes only after its token was resolved to an
\* existing, active principal, and only rows whose owner is that principal: what it
\* touched is the resolved user's, the resolved user is the active row the token names,
\* and a step that writes transactions or preferences (register apart, which inserts the
\* new user's own row) changes only rows of the resolved user.
C8_SingleGate ==
    [][/\ (last' # last /\ last'.kind = "data") =>
            IF last'.actor = None THEN last'.touched = {}
            ELSE /\ last'.actor[1] \in users
                 /\ last'.actor[1].is_active = TRUE
                 /\ last'.principal = last'.actor
                 /\ last'.touched \subseteq {last'.actor[1].id}
       /\ (txns' # txns \/ (prefs' # prefs /\ users' = users)) =>
            /\ last'.kind = "data" /\ last'.actor # None
            /\ last'.actor[1] \in users /\ last'.actor[1].is_active = TRUE
            /\ \A r \in Changed(txns, txns') \cup Changed(prefs, prefs') :
                    r.user_id = last'.actor[1].id]_vars

\* C8's case: a resolved user asked for a transaction that another user owns and got
\* none of it
C8_Witness ==
    /\ last.kind = "data"
    /\ last.actor # None
    /\ last.status = HTTP_404_NOT_FOUND
    /\ last.touched = {}
    /\ \E t \in txns : t.user_id # last.actor[1].id

\* ---------------------------------------------------------------------------------
\* Currency conversion (routers/analytics.py, convert_currency): one request against
\* one answer of the rate service.  Amounts are in hundredths, rates in hundredths,
\* their product in ten-thousandths.

\* str.upper() on the currency codes of the requests
Upper(s) ==
    CASE s = "usd" -> "USD"
      [] s = "eur" -> "EUR"
      [] OTHER -> s

\* the quotient and the remainder of a non-negative n by a positive d give round-half-even
RoundHalfEven(n, d) ==
    IF 2 * (n % d) > d \/ (2 * (n % d) = d /\ (n \div d) % 2 = 1)
    THEN (n \div d) + 1
    ELSE n \div d

\* round(x, 2) of a value held in ten-thousandths, in hundredths
round2(x) == RoundHalfEven(x, 100)

\* amount: float = Query(..., gt=0)
Amounts == {100, 250}

\* from_currency, to_currency: str = Query(..., min_length=3, max_length=3)
FromCurrencies == {"USD", "usd"}

ToCurrencies == {"EUR", "eur", "XXX"}

\* the codes and the rates a rates table of the service may hold
TableCodes == {"EUR", "INR"}

Rates == {92, 8325}

\* data["rates"]: a table from codes to rates
RateTables == UNION {[D -> Rates] : D \in SUBSET TableCodes}

\* response.json() of a body that is not JSON raises
NotJson == [json |-> FALSE]

\* a JSON body: an object with or without the "rates" key
JsonBody(rates) == [json |-> TRUE, rates |-> rates, date |-> "2024-01-01"]

Bodies == {NotJson, JsonBody(None)} \cup {JsonBody(Some(r)) : r \in RateTables}

\* what client.get(...) does: raises (no connection, timeout) or returns a response
Upstreams ==
    {[kind |-> "error"]}
        \cup {[kind |-> "response", status_code |-> s, body |-> NotJson] : s \in {404, 500}}
        \cup {[kind |-> "response", status_code |-> HTTP_200_OK, body |-> b] : b \in Bodies}

\* f"Currency {to_currency} not supported"
NotSupported(to_currency) ==
    CASE to_currency = "EUR" -> "Currency EUR not supported"
      [] to_currency = "eur" -> "Currency eur not supported"
      [] to_currency = "XXX" -> "Currency XXX not supported"

\* data.get("rates", {})
RatesOf(data) == IF data.rates = None THEN <<>> ELSE data.rates[1]

\* the result dictionary of a conversion
ConvertResult(amount, from_currency, to_currency, conversion_rate, data) ==
    [kind |-> "ok",
     result |-> [original_amount |-> amount,
                 original_currency |-> Upper(from_currency),
                 converted_amount |-> round2(amount * conversion_rate),
                 target_currency |-> Upper(to_currency),
                 conversion_rate |-> conversion_rate,
                 last_updated |-> data.date]]

\* convert_currency after response.json() returned data
AfterJson(amount, from_currency, to_currency, data) ==
    IF Upper(to_currency) \notin DOMAIN RatesOf(data)
    THEN Raise(HTTPException(HTTP_400_BAD_REQUEST, NotSupported(to_currency)))
    ELSE ConvertResult(amount, from_currency, to_currency,
                       RatesOf(data)[Upper(to_currency)], data)

\* the try block of convert_currency: the result, or the exception raised in it
convert_currency_try(amount, from_currency, to_currency, upstream) ==
    IF upstream.kind = "error" THEN Raise(Exc("ConnectError"))
    ELSE IF upstream.status_code # 200
    THEN Raise(HTTPException(HTTP_503_SERVICE_UNAVAILABLE,
                             "Currency conversion service unavailable"))
    ELSE IF upstream.body = NotJson THEN Raise(Exc("JSONDecodeError"))
    ELSE AfterJson(amount, from_currency, to_currency, upstream.body)

\* convert_currency's handler: `except Exception` catches whatever the try block
\* raised, the two HTTPExceptions included, and raises the 500
convert_currency_except(r) ==
    IF r.kind = "raise"
    THEN Raise(HTTPException(HTTP_500_INTERNAL_SERVER_ERROR, "Internal server error"))
    ELSE r

\* what the caller receives: the result with 200, or the exception's status and detail
ConvertResponse(r) ==
    IF r.kind = "raise"
    THEN [status |-> r.exc.status_code, detail |-> r.exc.detail, result |-> None]
    ELSE [status |-> HTTP_200_OK, detail |-> "", result |-> Some(r.result)]

ConvertInit ==
    /\ TokenIdle
    /\ StoreIdle
    /\ win = Idle
    /\ bd = Idle
    /\ bp = Idle
    /\ tf = Idle
    /\ rq = Idle
    /\ \E amount \in Amounts, from_currency \in FromCurrencies,
          to_currency \in ToCurrencies, upstream \in Upstreams :
            conv = [state |-> "request", amount |-> amount,
                    from_currency |-> from_currency, to_currency |-> to_currency,
                    upstream |-> upstream]

\* GET /analytics/currency/convert
convert_currency ==
    /\ conv.state = "request"
    /\ \E r \in {convert_currency_try(conv.amount, conv.from_currency,
                                      conv.to_currency, conv.upstream)} :
        conv' = [state |-> "done", amount |-> conv.amount,
                 from_currency |-> conv.from_currency, to_currency |-> conv.to_currency,
                 upstream |-> conv.upstream,
                 response |-> ConvertResponse(convert_currency_except(r))]
    /\ UNCHANGED <<tokVars, storeVars, last, win, bd, bp, tf, rq>>

SpecConvert == ConvertInit /\ [][convert_currency]_vars

\* the service answered, and with a status other than 200
UpstreamNon200 ==
    conv.upstream.kind = "response" /\ conv.upstream.status_code # HTTP_200_OK

\* the service answered 200 with a JSON body whose rates table lacks the target code
TargetAbsent ==
    /\ conv.upstream.kind = "response"
    /\ conv.upstream.status_code = HTTP_200_OK
    /\ conv.upstream.body # NotJson
    /\ Upper(conv.to_currency) \notin DOMAIN RatesOf(conv.upstream.body)

\* C3: a non-200 answer of the rate service gives the caller the 'service unavailable'
\* error (503) and a rates table without the target code gives the 'not supported'
\* error (400), each distinct from the generic 500 of an unexpected failure.
C3_DistinctErrors ==
    conv.state = "done" =>
        /\ UpstreamNon200 =>
              /\ conv.response.status = HTTP_503_SERVICE_UNAVAILABLE
              /\ conv.response.detail = "Currency conversion service unavailable"
        /\ TargetAbsent =>
              /\ conv.response.status = HTTP_400_BAD_REQUEST
              /\ conv.response.detail = NotSupported(conv.to_currency)

\* ---------------------------------------------------------------------------------
\* The period window (routers/analytics.py get_category_breakdown and
\* routers/external.py get_transaction_summary): the start date each computes from
\* (period, now).  A datetime is its fields; dates follow the proleptic Gregorian
\* calendar of the datetime module.

\* the years datetime.now() is drawn from
FirstYear == 2023

LastYear == 2024

Periods == {"day", "week", "month", "year"}

IsLeap(y) == y % 4 = 0 /\ (y % 100 # 0 \/ y % 400 = 0)

DaysInMonth(y, m) ==
    IF m = 2 THEN (IF IsLeap(y) THEN 29 ELSE 28)
    ELSE IF m \in {4, 6, 9, 11} THEN 30 ELSE 31

\* datetime._days_before_year
DaysBeforeYear(y) ==
    (y - 1) * 365 + ((y - 1) \div 4) - ((y - 1) \div 100) + ((y - 1) \div 400)

RECURSIVE DaysBeforeMonth(_, _)
\* datetime._days_before_month
DaysBeforeMonth(y, m) ==
    IF m = 1 THEN 0 ELSE DaysBeforeMonth(y, m - 1) + DaysInMonth(y, m - 1)

\* date.toordinal(): the day number, 0001-01-01 being day 1
toordinal(dt) == DaysBeforeYear(dt.year) + DaysBeforeMonth(dt.year, dt.month) + dt.day

\* the calendar dates of the given years
DatesOf(years) ==
    {[year |-> y, month |-> m, day |-> d] :
        y \in years, m \in 1..12, d \in 1..31} \ {x \in [year : years, month : 1..12, day : 29..31] :
                                                     x.day > DaysInMonth(x.year, x.month)}

\* date.fromordinal(n): the date whose ordinal is n; a week's start may lie in the
\* year before now's
fromordinal(n) ==
    CHOOSE x \in DatesOf((FirstYear - 1)..LastYear) : toordinal(x) = n

\* datetime.weekday() with Sunday as day 0
weekday_SundayFirst(dt) == toordinal(dt) % 7

\* datetime.weekday(): Monday is 0, Sunday is 6
weekday(dt) == (toordinal(dt) + 6) % 7

\* the time-of-day fields of a datetime
TimeOf(hour, minute, second, microsecond) ==
    [hour |-> hour, minute |-> minute, second |-> second, microsecond |-> microsecond]

DateTime(date, time) ==
    [year |-> date.year, month |-> date.month, day |-> date.day,
     hour |-> time.hour, minute |-> time.minute, second |-> time.second,
     microsecond |-> time.microsecond]

\* now - timedelta(days=n): the date moves, the time of day stays
MinusDays(dt, n) == DateTime(fromordinal(toordinal(dt) - n), dt)

\* dt.replace(hour=0, minute=0, second=0, microsecond=0)
AtMidnight(dt) == DateTime(dt, TimeOf(0, 0, 0, 0))

\* the start date of get_category_breakdown
breakdown_start_date(period, t) ==
    IF period = "day" THEN AtMidnight(t)
    ELSE IF period = "week" THEN AtMidnight(MinusDays(t, weekday(t)))
    ELSE IF period = "month" THEN AtMidnight([t EXCEPT !.day = 1])
    ELSE AtMidnight([t EXCEPT !.month = 1, !.day = 1])

\* the start date of get_transaction_summary
summary_start_date(period, t) ==
    IF period = "day" THEN AtMidnight(t)
    ELSE IF period = "week" THEN AtMidnight(MinusDays(t, weekday(t)))
    ELSE IF period = "month" THEN AtMidnight([t EXCEPT !.day = 1])
    ELSE AtMidnight([t EXCEPT !.month = 1, !.day = 1])

\* the times of day datetime.now() is drawn from
TimesOfDay == {TimeOf(0, 0, 0, 0), TimeOf(0, 0, 0, 1), TimeOf(23, 59, 59, 999999)}

PeriodInit ==
    /\ TokenIdle
    /\ StoreIdle
    /\ conv = Idle
    /\ bd = Idle
    /\ bp = Idle
    /\ tf = Idle
    /\ rq = Idle
    /\ \E period \in Periods, date \in DatesOf(FirstYear..LastYear), time \in TimesOfDay :
            win = [state |-> "request", period |-> period, now |-> DateTime(date, time)]

\* the two endpoints compute their start date for the same period at the same now
StartDates ==
    /\ win.state = "request"
    /\ win' = [state |-> "done", period |-> win.period, now |-> win.now,
               breakdown |-> breakdown_start_date(win.period, win.now),
               summary |-> summary_start_date(win.period, win.now)]
    /\ UNCHANGED <<tokVars, storeVars, last, conv, bd, bp, tf, rq>>

SpecPeriod == PeriodInit /\ [][StartDates]_vars

\* a datetime as a tuple that orders like the instants
Instant(dt) ==
    <<toordinal(dt), dt.hour, dt.minute, dt.second, dt.microsecond>>

RECURSIVE LexLeq(_, _)
LexLeq(a, b) ==
    IF a = <<>> THEN TRUE
    ELSE IF Head(a) # Head(b) THEN Head(a) < Head(b)
    ELSE LexLeq(Tail(a), Tail(b))

\* 2024-01-01 was a Monday: a day is a Monday when it is a whole number of weeks from it
IsMonday(dt) ==
    (toordinal(dt) - toordinal([year |-> 2024, month |-> 1, day |-> 1])) % 7 = 0

\* what section 4.4 asks of the start of the window for (period, now)
IsWindowStart(start, period, t) ==
    /\ start = AtMidnight(start)
    /\ period = "day" => toordinal(start) = toordinal(t)
    /\ period = "week" => /\ IsMonday(start)
                          /\ toordinal(t) - toordinal(start) \in 0..6
    /\ period = "month" => /\ start.year = t.year /\ start.month = t.month
                           /\ start.day = 1
    /\ period = "year" => /\ start.year = t.year
                          /\ start.month = 1 /\ start.day = 1
    /\ LexLeq(Instant(start), Instant(t))

\* C9: the start of the window is midnight of now's date for day, of the Monday on or
\* before now for week, of the 1st of now's month for month and of January 1 of now's
\* year for year; it is never after now; and the category breakdown and the
\* transaction summary compute the same start for the same (period, now).
C9_WindowStart ==
    win.state = "done" =>
        /\ IsWindowStart(win.breakdown, win.period, win.now)
        /\ IsWindowStart(win.summary, win.period, win.now)
        /\ win.breakdown = win.summary

\* a week whose Monday lies in the year before now's (2023-01-01 was a Sunday)
C9_Witness ==
    /\ win.state = "done"
    /\ win.period = "week"
    /\ win.breakdown.year < win.now.year
    /\ win.summary.year < win.now.year
    /\ win.now.hour = 23

\* ---------------------------------------------------------------------------------
\* The category breakdown (routers/analytics.py get_category_breakdown, after the
\* grouped query): the rows of the query are the input, one row per category value,
\* the NULL category being a value of its own.  Percentages are in hundredths.

\* the most rows the grouped query returns
MaxGroups == 3

\* Transaction.category: NULL or a string of at most 100 characters, the empty one
\* included
Categories == {None, Some(""), Some("Food"), Some("Uncategorized")}

\* func.sum(Transaction.amount) of a group
Totals == {0, 1, 3, 799}

\* func.count(Transaction.id) of a group
Counts == {1, 2}

\* the rows .group_by(Transaction.category).all() may return: distinct categories, any order
GroupRows ==
    {g \in UNION {[1..n -> [category : Categories, total_amount : Totals,
                            transaction_count : Counts]] : n \in 0..MaxGroups} :
        \A i, j \in DOMAIN g : i # j => g[i].category # g[j].category}

RECURSIVE sum_total_amount(_)
\* sum(t.total_amount for t in transactions)
sum_total_amount(transactions) ==
    IF transactions = <<>> THEN 0
    ELSE Head(transactions).total_amount + sum_total_amount(Tail(transactions))

\* the ratio total_amount / total_expenses rounded to two decimals first and
\* multiplied by 100 afterwards
round_ratio_first(total_amount, total_expenses) ==
    IF total_expenses > 0 THEN {RoundHalfEven(total_amount * 100, total_expenses) * 100}
    ELSE {0}

\* round(percentage, 2), in hundredths, of
\*   percentage = (total_amount / total_expenses * 100) if total_expenses > 0 else 0
\* the nearest hundredth; where the exact value lies half-way between two hundredths
\* the binary floating-point value decides the side, so both are possible
round_percentage(total_amount, total_expenses) ==
    IF total_expenses > 0
    THEN IF 2 * ((total_amount * 10000) % total_expenses) = total_expenses
         THEN {(total_amount * 10000) \div total_expenses,
               ((total_amount * 10000) \div total_expenses) + 1}
         ELSE {RoundHalfEven(total_amount * 10000, total_expenses)}
    ELSE {0}

\* transaction.category or "Uncategorized": None and "" are both false
CategoryOr(category) ==
    IF category = None \/ category[1] = "" THEN "Uncategorized" ELSE category[1]

\* the dictionaries breakdown.append(...) may add for one row of the query
BreakdownRows(transaction, total_expenses) ==
    {[category |-> CategoryOr(transaction.category),
      total_amount |-> transaction.total_amount,
      transaction_count |-> transaction.transaction_count,
      percentage |-> p] : p \in round_percentage(transaction.total_amount, total_expenses)}

RECURSIVE Breakdowns(_, _)
\* the lists the loop over the rows may build
Breakdowns(transactions, total_expenses) ==
    IF transactions = <<>> THEN {<<>>}
    ELSE {<<r>> \o rest : r \in BreakdownRows(Head(transactions), total_expenses),
                          rest \in Breakdowns(Tail(transactions), total_expenses)}

\* x placed after the entries of the sorted list s that are not smaller than it
InsertDesc(s, x) ==
    LET k == Cardinality({i \in DOMAIN s : s[i].total_amount >= x.total_amount})
    IN  SubSeq(s, 1, k) \o <<x>> \o SubSeq(s, k + 1, Len(s))

RECURSIVE SortDesc(_)
\* breakdown.sort(key=lambda x: x["total_amount"], reverse=True): stable
SortDesc(s) ==
    IF s = <<>> THEN <<>>
    ELSE InsertDesc(SortDesc(SubSeq(s, 1, Len(s) - 1)), s[Len(s)])

BreakdownInit ==
    /\ TokenIdle
    /\ StoreIdle
    /\ conv = Idle
    /\ win = Idle
    /\ bp = Idle
    /\ tf = Idle
    /\ rq = Idle
    /\ \E transactions \in GroupRows : bd = [state |-> "rows", transactions |-> transactions]

\* get_category_breakdown from the rows of the query to the result
category_breakdown ==
    /\ bd.state = "rows"
    /\ \E total_expenses \in {sum_total_amount(bd.transactions)} :
       \E breakdown \in Breakdowns(bd.transactions, total_expenses) :
          bd' = [state |-> "done", transactions |-> bd.transactions,
                 status |-> HTTP_200_OK,
                 result |-> [total_expenses |-> total_expenses,
                             category_count |-> Len(breakdown),
                             breakdown |-> SortDesc(breakdown)]]
    /\ UNCHANGED <<tokVars, storeVars, last, conv, win, bp, tf, rq>>

SpecBreakdown == BreakdownInit /\ [][category_breakdown]_vars

RECURSIVE TotalOfAll(_, _)
\* the total of the groups i..Len(g) of the query's rows
TotalOfAll(g, i) ==
    IF i > Len(g) THEN 0 ELSE g[i].total_amount + TotalOfAll(g, i + 1)

Abs(x) == IF x < 0 THEN 0 - x ELSE x

\* p hundredths is a / total * 100 rounded to two decimals: no hundredth is nearer
IsRoundedPercentage(p, a, total) == 2 * Abs(p * total - a * 10000) <= total

\* C10: each group's percentage is its total / the total of all groups * 100 rounded
\* to two decimals after the division; it is 0 for every group when the total of all
\* groups is 0; and the computation ends with a result for every input (no division
\* by zero).
C10_Percentage ==
    bd.state = "done" =>
        /\ bd.status = HTTP_200_OK
        /\ Len(bd.result.breakdown) = Len(bd.transactions)
        /\ \A g \in {bd.transactions[i] : i \in DOMAIN bd.transactions} :
             \E i \in DOMAIN bd.result.breakdown :
                /\ bd.result.breakdown[i].category = CategoryOr(g.category)
                /\ bd.result.breakdown[i].total_amount = g.total_amount
                /\ bd.result.breakdown[i].transaction_count = g.transaction_count
                /\ IF TotalOfAll(bd.transactions, 1) = 0
                   THEN bd.result.breakdown[i].percentage = 0
                   ELSE IsRoundedPercentage(bd.result.breakdown[i].percentage,
                                            g.total_amount, TotalOfAll(bd.transactions, 1))

\* three groups of 1 each: every percentage is 33.33, a third rounded after the
\* multiplication by 100
C10_Witness ==
    /\ bd.state = "done"
    /\ Len(bd.transactions) = 3
    /\ bd.result.total_expenses = 3
    /\ \A i \in 1..3 : bd.result.breakdown[i].percentage = 3333

\* the labels of the buckets of a breakdown
Labels(breakdown) == {breakdown[i].category : i \in DOMAIN breakdown}

\* C11: entries without a category fold into the 'Uncategorized' group: each label
\* appears in at most one bucket of the breakdown and category_count is the number of
\* distinct labels.
C11_OneBucketPerLabel ==
    bd.state = "done" =>
        /\ \A i, j \in DOMAIN bd.result.breakdown :
              bd.result.breakdown[i].category = bd.result.breakdown[j].category => i = j
        /\ bd.result.category_count = Cardinality(Labels(bd.result.breakdown))

\* ---------------------------------------------------------------------------------
\* The budget progress (routers/analytics.py get_budget_progress, after the gate): the
\* caller, the budgets table and the transactions table are the input.  Amounts are
\* whole numbers, dates are days, percentages are in hundredths.

\* the most rows of the transactions table
MaxEntries == 2

\* the most rows of the budgets table
MaxBudgetRows == 2

\* Transaction.user_id, Budget.user_id: the caller is user 1
UserIds == {1, 2}

\* rows of the transactions table: every combination of owner, kind, category and a
\* date before and after day 2, and the caller's 'Food' expenses of day 2
EntryRows ==
    [user_id : UserIds, transaction_type : {"expense", "income"},
     category : {None, Some("Food")}, date : {1, 3}, amount : {50}]
      \cup [user_id : {1}, transaction_type : {"expense"}, category : {Some("Food")},
            date : {2}, amount : {85, 100, 29999}]

\* (start_date, end_date) of a budget
BudgetWindows == {<<2, None>>, <<1, Some(2)>>, <<1, Some(3)>>}

\* rows of the budgets table, without their id: every combination of owner, flag,
\* category and window, and the caller's open-ended 'Food' budgets of several amounts
BudgetRows ==
    {[user_id |-> u, is_active |-> a, category |-> c, amount |-> 100,
      start_date |-> w[1], end_date |-> w[2]] :
        u \in UserIds, a \in BOOLEAN, c \in {None, Some("Food")}, w \in BudgetWindows}
      \cup {[user_id |-> 1, is_active |-> TRUE, category |-> Some("Food"), amount |-> m,
             start_date |-> 1, end_date |-> None] : m \in {-100, 0, 100, 30000}}

\* the budgets table: the rows in the order the query returns them, the id being the
\* position
BudgetTable(rows) ==
    [i \in DOMAIN rows |->
        [id |-> i, user_id |-> rows[i].user_id, is_active |-> rows[i].is_active,
         category |-> rows[i].category, amount |-> rows[i].amount,
         start_date |-> rows[i].start_date, end_date |-> rows[i].end_date]]

\* db.query(Budget).filter(and_(Budget.user_id == current_user.id,
\*                              Budget.is_active == True)).all()
ActiveBudgets(tbl, user_id) ==
    SelectSeq(tbl, LAMBDA b : b.user_id = user_id /\ b.is_active = TRUE)

\* the filter of the spent_query of a budget with a category
CategoryExpenses(tbl, budget, user_id) ==
    {t \in tbl : /\ t.user_id = user_id
                 /\ t.category = budget.category
                 /\ t.transaction_type = "expense"
                 /\ t.date >= budget.start_date}

\* the filter of the spent_query of a general budget: all expenses
AllExpenses(tbl, budget, user_id) ==
    {t \in tbl : /\ t.user_id = user_id
                 /\ t.transaction_type = "expense"
                 /\ t.date >= budget.start_date}

\* the spent_query with the end_date filter left out
UntilEnd_Ignored(rows, budget) == rows

\* if budget.end_date is not None: spent_query.filter(Transaction.date <= budget.end_date)
UntilEnd(rows, budget) ==
    IF budget.end_date # None THEN {t \in rows : t.date <= budget.end_date[1]} ELSE rows

RECURSIVE func_sum(_)
\* func.sum(Transaction.amount) over the rows of a query; `.scalar() or 0` makes the
\* NULL of no rows a 0
func_sum(rows) ==
    IF rows = {} THEN 0
    ELSE LET t == CHOOSE t \in rows : TRUE IN t.amount + func_sum(rows \ {t})

\* spent_amount of a budget
spent_amount(tbl, budget, user_id) ==
    IF budget.category # None
    THEN func_sum(UntilEnd(CategoryExpenses(tbl, budget, user_id), budget))
    ELSE func_sum(UntilEnd(AllExpenses(tbl, budget, user_id), budget))

\* progress_percentage >= k, for
\*   progress_percentage = (spent_amount / budget_amount * 100) if budget_amount > 0 else 0
ProgressAtLeast(spent, budget_amount, k) ==
    IF budget_amount > 0 THEN spent * 100 >= k * budget_amount ELSE 0 >= k

\* the status with `>` in the place of `>=`
budget_status_Above(spent, budget_amount) ==
    IF ProgressAtLeast(spent, budget_amount, 100) /\ spent # budget_amount THEN "exceeded"
    ELSE IF ProgressAtLeast(spent, budget_amount, 80) THEN "warning"
    ELSE "good"

\* the if / elif / else that determines budget_status
budget_status(spent, budget_amount) ==
    IF ProgressAtLeast(spent, budget_amount, 100) THEN "exceeded"
    ELSE IF ProgressAtLeast(spent, budget_amount, 80) THEN "warning"
    ELSE "good"

\* round(float(progress_percentage), 2), in hundredths: the same guarded quotient and
\* the same rounding as the percentage of the category breakdown
round_progress(spent, budget_amount) == round_percentage(spent, budget_amount)

\* the dictionaries budget_progress.append(...) may add for a budget
ProgressRows(budget, spent) ==
    {[budget_id |-> budget.id,
      budget_amount |-> budget.amount,
      spent_amount |-> spent,
      remaining_amount |-> budget.amount - spent,
      progress_percentage |-> p,
      category |-> budget.category,
      status |-> budget_status(spent, budget.amount)] :
        p \in round_progress(spent, budget.amount)}

RECURSIVE ProgressLists(_, _, _)
\* the lists the loop over the budgets may build
ProgressLists(bs, tbl, user_id) ==
    IF bs = <<>> THEN {<<>>}
    ELSE {<<r>> \o rest :
            r \in ProgressRows(Head(bs), spent_amount(tbl, Head(bs), user_id)),
            rest \in ProgressLists(Tail(bs), tbl, user_id)}

\* x placed after the entries of the sorted list s whose progress is not smaller
InsertByProgress(s, x) ==
    LET k == Cardinality({i \in DOMAIN s :
                            s[i].progress_percentage >= x.progress_percentage})
    IN  SubSeq(s, 1, k) \o <<x>> \o SubSeq(s, k + 1, Len(s))

\* the sort that leaves the list in the order the loop built it
SortByProgress_Unsorted(s) == s

RECURSIVE SortByProgress(_)
\* budget_progress.sort(key=lambda x: x["progress_percentage"], reverse=True): stable
SortByProgress(s) ==
    IF s = <<>> THEN <<>>
    ELSE InsertByProgress(SortByProgress(SubSeq(s, 1, Len(s) - 1)), s[Len(s)])

\* len([b for b in budget_progress if b["status"] == status])
CountStatus(budget_progress, status) ==
    Len(SelectSeq(budget_progress, LAMBDA b : b.status = status))

\* the result dictionary
ProgressResult(budget_progress) ==
    [total_budgets |-> Len(budget_progress),
     active_budgets |-> CountStatus(budget_progress, "good"),
     warning_budgets |-> CountStatus(budget_progress, "warning"),
     exceeded_budgets |-> CountStatus(budget_progress, "exceeded"),
     budgets |-> budget_progress]

BudgetInit ==
    /\ TokenIdle
    /\ StoreIdle
    /\ conv = Idle
    /\ win = Idle
    /\ bd = Idle
    /\ tf = Idle
    /\ rq = Idle
    /\ \E rows \in UNION {[1..n -> BudgetRows] : n \in 0..MaxBudgetRows},
          entries \in {e \in SUBSET EntryRows : Cardinality(e) <= MaxEntries} :
            bp = [state |-> "request", current_user |-> 1,
                  budgets |-> BudgetTable(rows), transactions |-> entries]

\* get_budget_progress from the two tables to the result
budget_progress ==
    /\ bp.state = "request"
    /\ \E rows \in ProgressLists(ActiveBudgets(bp.budgets, bp.current_user),
                                 bp.transactions, bp.current_user) :
          bp' = [state |-> "done", current_user |-> bp.current_user,
                 budgets |-> bp.budgets, transactions |-> bp.transactions,
                 status |-> HTTP_200_OK,
                 result |-> ProgressResult(SortByProgress(rows))]
    /\ UNCHANGED <<tokVars, storeVars, last, conv, win, bd, tf, rq>>

SpecBudget == BudgetInit /\ [][budget_progress]_vars

\* the entries section 4.6 counts for budget b of the caller u: the caller's expenses
\* from the budget's start, up to its end when it has one, of its category when it has one
CountedEntries(entries, b, u) ==
    {t \in entries :
        /\ t.user_id = u
        /\ t.transaction_type = "expense"
        /\ t.date >= b.start_date
        /\ b.end_date # None => t.date <= b.end_date[1]
        /\ b.category # None => t.category = b.category}

RECURSIVE FaceValue(_)
\* the sum of the amounts as they stand
FaceValue(entries) ==
    IF entries = {} THEN 0
    ELSE LET t == CHOOSE t \in entries : TRUE IN t.amount + FaceValue(entries \ {t})

\* the rows of the budgets table that are the caller's and active
OwnActive(tbl, u) == {i \in DOMAIN tbl : tbl[i].user_id = u /\ tbl[i].is_active}

\* C12: there is one result row for each active budget of the caller and none for an
\* inactive budget or another principal's; its spent is the face-value sum of exactly the
\* caller's expense entries from the budget's start, up to its end when one is set and
\* of its category when one is set; and remaining = target - spent.
C12_SpentAndRemaining ==
    bp.state = "done" =>
        /\ Len(bp.result.budgets) = Cardinality(OwnActive(bp.budgets, bp.current_user))
        /\ {bp.result.budgets[i].budget_id : i \in DOMAIN bp.result.budgets}
              = OwnActive(bp.budgets, bp.current_user)
        /\ \A i \in DOMAIN bp.result.budgets :
              /\ bp.result.budgets[i].spent_amount
                    = FaceValue(CountedEntries(bp.transactions,
                                               bp.budgets[bp.result.budgets[i].budget_id],
                                               bp.current_user))
              /\ bp.result.budgets[i].remaining_amount
                    = bp.result.budgets[i].budget_amount - bp.result.budgets[i].spent_amount
              /\ bp.result.budgets[i].budget_amount
                    = bp.budgets[bp.result.budgets[i].budget_id].amount

\* a 'Food' budget that ended on day 2 beside an inactive one: the caller's 'Food'
\* expense of day 1 is counted, the one of day 3 is not
C12_Witness ==
    /\ bp.state = "done"
    /\ Len(bp.budgets) = 2
    /\ Len(bp.result.budgets) = 1
    /\ bp.budgets[bp.result.budgets[1].budget_id].end_date = Some(2)
    /\ bp.budgets[bp.result.budgets[1].budget_id].category = Some("Food")
    /\ Cardinality({t \in bp.transactions :
                      /\ t.user_id = bp.current_user /\ t.transaction_type = "expense"
                      /\ t.category = Some("Food")}) = 2
    /\ bp.result.budgets[1].spent_amount = 50
    /\ bp.result.budgets[1].remaining_amount = 50

\* the status section 4.6 gives a budget of the given target and spent amount
StatusOf(spent, target) ==
    IF target > 0 /\ spent >= target THEN "exceeded"
    ELSE IF target > 0 /\ 5 * spent >= 4 * target THEN "warning"
    ELSE "good"

\* C13: progress% is spent / target * 100, taken as 0 when target <= 0; the status is
\* 'exceeded' when progress% >= 100, otherwise 'warning' when progress% >= 80, otherwise
\* 'good'; target 100 with spent 100, 85 and 50 gives 'exceeded', 'warning' and 'good',
\* and target 0 gives progress% 0 and 'good'.
C13_StatusClassification ==
    bp.state = "done" =>
        \A i \in DOMAIN bp.result.budgets :
            \E r \in {bp.result.budgets[i]} :
                /\ r.status = StatusOf(r.spent_amount, r.budget_amount)
                /\ IF r.budget_amount <= 0 THEN r.progress_percentage = 0
                   ELSE IsRoundedPercentage(r.progress_percentage, r.spent_amount,
                                            r.budget_amount)
                /\ r.budget_amount = 100 /\ r.spent_amount = 100 => r.status = "exceeded"
                /\ r.budget_amount = 100 /\ r.spent_amount = 85 => r.status = "warning"
                /\ r.budget_amount = 100 /\ r.spent_amount = 50 => r.status = "good"
                /\ r.budget_amount = 0 => r.status = "good"

\* a budget of 100 with 100 spent beside a budget of 0 with the same 100 spent
C13_Witness ==
    /\ bp.state = "done"
    /\ Len(bp.result.budgets) = 2
    /\ bp.result.budgets[1].budget_amount = 100
    /\ bp.result.budgets[1].spent_amount = 100
    /\ bp.result.budgets[1].progress_percentage = 10000
    /\ bp.result.budgets[1].status = "exceeded"
    /\ bp.result.budgets[2].budget_amount = 0
    /\ bp.result.budgets[2].spent_amount = 100
    /\ bp.result.budgets[2].progress_percentage = 0
    /\ bp.result.budgets[2].status = "good"

\* the number of rows of the given status
RowsOfStatus(rows, status) == Cardinality({i \in DOMAIN rows : rows[i].status = status})

\* C14: the returned budgets are in non-increasing order of progress percentage, each
\* of the three summary counts is the number of result rows of its status, and
\* active_budgets + warning_budgets + exceeded_budgets = total_budgets = the number of
\* result rows.
C14_SortedAndCounted ==
    bp.state = "done" =>
        /\ \A i, j \in DOMAIN bp.result.budgets :
              i < j => bp.result.budgets[i].progress_percentage
                          >= bp.result.budgets[j].progress_percentage
        /\ bp.result.active_budgets = RowsOfStatus(bp.result.budgets, "good")
        /\ bp.result.warning_budgets = RowsOfStatus(bp.result.budgets, "warning")
        /\ bp.result.exceeded_budgets = RowsOfStatus(bp.result.budgets, "exceeded")
        /\ bp.result.total_budgets = Len(bp.result.budgets)
        /\ bp.result.active_budgets + bp.result.warning_budgets
              + bp.result.exceeded_budgets = bp.result.total_budgets

\* two budgets returned by the query in increasing order of progress: the second one,
\* at 85 percent, comes first in the result
C14_Witness ==
    /\ bp.state = "done"
    /\ bp.result.total_budgets = 2
    /\ bp.result.budgets[1].budget_id = 2
    /\ bp.result.budgets[1].progress_percentage = 8500
    /\ bp.result.budgets[1].status = "warning"
    /\ bp.result.budgets[2].status = "good"
    /\ bp.result.budgets[2].progress_percentage < 8500
    /\ bp.result.active_budgets = 1
    /\ bp.result.warning_budgets = 1
    /\ bp.result.exceeded_budgets = 0

\* ---------------------------------------------------------------------------------
\* The data transformations (routers/analytics.py transform_financial_data and the four
\* transform_* functions).  The request body is a JSON object; a key of a dictionary
\* either is Missing or holds a JSON value; a transaction is a dictionary with the keys
\* amount, type, category and date.

\* the most transactions of a request body
MaxRecords == 3

\* the most transactions of the body of an aggregate request
MaxDated == 2

Missing == [t |-> "missing"]

JNull == [t |-> "null"]

\* a JSON number: its value is the field n, so that a number and a string never
\* share a record domain
JNum(n) == [t |-> "num", n |-> n]

\* a JSON list of the items s
JList(s) == [t |-> "list", items |-> s]

\* a function returned the value
Returns(value) == [kind |-> "ok", value |-> value]

\* a transaction dictionary
TransactionDict(amount, type, category, date) ==
    [amount |-> amount, type |-> type, category |-> category, date |-> date]

\* the values of the "type" key
TypeValues == {Missing, JStr("income"), JStr("expense"), JStr("transfer")}

\* transactions of the bodies of summarize requests
SummarizeRecords ==
    {TransactionDict(a, ty, Missing, Missing) :
        a \in {Missing, JNum(10), JNum(20), JStr("12")}, ty \in TypeValues}

\* transactions of the bodies of categorize requests
CategorizeRecords ==
    {TransactionDict(a, Missing, c, Missing) :
        a \in {Missing, JNum(10), JStr("12")},
        c \in {Missing, JNull, JStr("Food"), JStr("Uncategorized")}}

\* transactions of the bodies of normalize requests
NormalizeRecords ==
    {TransactionDict(a, Missing, Missing, Missing) :
        a \in {Missing, JNum(5), JNum(10), JNum(20), JNum(30), JStr("12")}}

\* the lists of at most n of the given transactions
ListsOf(records, n) == UNION {[1..k -> records] : k \in 0..n}

\* the error payload of a body without the "transactions" key
no_transactions == [error |-> "No transactions data provided"]

\* transaction.get("amount", 0)
get_amount(transaction) ==
    IF transaction.amount = Missing THEN JNum(0) ELSE transaction.amount

\* whether + and - are defined on every amount of the list: they are numbers
AllNumbers(transactions) ==
    \A i \in DOMAIN transactions : get_amount(transactions[i]).t = "num"

RECURSIVE sum_amount(_)
\* sum(t.get("amount", 0) for t in transactions), all of them numbers
sum_amount(transactions) ==
    IF transactions = <<>> THEN 0
    ELSE get_amount(Head(transactions)).n + sum_amount(Tail(transactions))

\* the transactions of the type, a transaction without a type being an expense
OfType_DefaultExpense(transactions, type) ==
    SelectSeq(transactions,
              LAMBDA tr : tr.type = JStr(type) \/ (type = "expense" /\ tr.type = Missing))

\* the transactions with t.get("type") == type
OfType(transactions, type) ==
    SelectSeq(transactions, LAMBDA tr : tr.type = JStr(type))

RECURSIVE GCD(_, _)
GCD(a, b) == IF b = 0 THEN a ELSE GCD(b, a % b)

\* the quotient n / d of two numbers, d positive, n not negative: a fraction in lowest terms
Quotient(n, d) == [num |-> n \div GCD(n, d), den |-> d \div GCD(n, d)]

\* (total_income + total_expenses) / len(transactions) if transactions else 0
average_transaction(total, count) ==
    IF count # 0 THEN Quotient(total, count) ELSE Quotient(0, 1)

\* the dictionary transform_summarize returns for the two totals
Summary(transactions, total_income, total_expenses) ==
    [total_transactions |-> Len(transactions),
     total_income |-> total_income,
     total_expenses |-> total_expenses,
     net_amount |-> total_income - total_expenses,
     average_transaction |-> average_transaction(total_income + total_expenses,
                                                 Len(transactions))]

\* transform_summarize(data)
transform_summarize(data) ==
    IF data.transactions = Missing THEN Returns(no_transactions)
    ELSE IF data.transactions.t # "list" THEN Raise(Exc("TypeError"))
    ELSE IF ~AllNumbers(OfType(data.transactions.items, "income")) THEN Raise(Exc("TypeError"))
    ELSE IF ~AllNumbers(OfType(data.transactions.items, "expense")) THEN Raise(Exc("TypeError"))
    ELSE Returns(Summary(data.transactions.items,
                         sum_amount(OfType(data.transactions.items, "income")),
                         sum_amount(OfType(data.transactions.items, "expense"))))

\* transaction.get("category", "Uncategorized"): a null category stays null
get_category(transaction) ==
    IF transaction.category = Missing THEN JStr("Uncategorized") ELSE transaction.category

\* the transactions of one category, in the order of the list
OfCategory(transactions, category) ==
    SelectSeq(transactions, LAMBDA tr : get_category(tr) = category)

\* the categories dictionary the loop of transform_categorize builds
CategoriesDict(transactions) ==
    [c \in {get_category(transactions[i]) : i \in DOMAIN transactions} |->
        [total |-> sum_amount(OfCategory(transactions, c)),
         count |-> Len(OfCategory(transactions, c))]]

\* transform_categorize(data)
transform_categorize(data) ==
    IF data.transactions = Missing THEN Returns(no_transactions)
    ELSE IF data.transactions.t # "list" THEN Raise(Exc("TypeError"))
    ELSE IF ~AllNumbers(data.transactions.items) THEN Raise(Exc("TypeError"))
    ELSE Returns([categories |-> CategoriesDict(data.transactions.items)])

\* the amounts of the list
AmountsOf(transactions) == {get_amount(transactions[i]) : i \in DOMAIN transactions}

\* min(amounts) and max(amounts) of numbers
MinAmount(transactions) ==
    CHOOSE m \in AmountsOf(transactions) : \A a \in AmountsOf(transactions) : m.n <= a.n

MaxAmount(transactions) ==
    CHOOSE m \in AmountsOf(transactions) : \A a \in AmountsOf(transactions) : m.n >= a.n

\* the amount scaled by the maximum alone: amount / max_amount if max_amount != 0 else 0
normalized_amount_Scaled(amount, min_amount, max_amount) ==
    IF max_amount # 0 THEN Quotient(amount, max_amount) ELSE Quotient(0, 1)

\* (amount - min_amount) / (max_amount - min_amount) if max_amount != min_amount else 0
normalized_amount(amount, min_amount, max_amount) ==
    IF max_amount # min_amount
    THEN Quotient(amount - min_amount, max_amount - min_amount)
    ELSE Quotient(0, 1)

\* {**transaction, "normalized_amount": normalized_amount}
Normalized(transaction, normalized) ==
    [transaction |-> transaction, normalized_amount |-> normalized]

\* the result of transform_normalize for amounts that are numbers
NormalizeNumbers(transactions, min_amount, max_amount) ==
    [original_range |-> [min |-> min_amount, max |-> max_amount],
     normalized_transactions |->
        [i \in DOMAIN transactions |->
            Normalized(transactions[i],
                       normalized_amount(get_amount(transactions[i]).n,
                                         min_amount.n, max_amount.n))]]

\* the result of transform_normalize for amounts that are one and the same string: min
\* and max are that string and nothing is subtracted
NormalizeEqual(transactions, amount) ==
    [original_range |-> [min |-> amount, max |-> amount],
     normalized_transactions |->
        [i \in DOMAIN transactions |-> Normalized(transactions[i], Quotient(0, 1))]]

\* transform_normalize(data): min() and max() compare the amounts, which raises for a
\* string beside a number
transform_normalize(data) ==
    IF data.transactions = Missing THEN Returns(no_transactions)
    ELSE IF data.transactions.t # "list" THEN Raise(Exc("TypeError"))
    ELSE IF data.transactions.items = <<>> THEN Returns([error |-> "No valid amounts found"])
    ELSE IF AllNumbers(data.transactions.items)
    THEN Returns(NormalizeNumbers(data.transactions.items, MinAmount(data.transactions.items),
                                  MaxAmount(data.transactions.items)))
    ELSE IF Cardinality(AmountsOf(data.transactions.items)) = 1
    THEN Returns(NormalizeEqual(data.transactions.items,
                                get_amount(data.transactions.items[1])))
    ELSE Raise(Exc("TypeError"))

\* the values of the "date" key: absent, null, empty, not a date, not a string, and
\* four dates, one of them with a time and the Z suffix
DateValues ==
    {Missing, JNull, JStr(""), JStr("not-a-date"), JNum(20240105),
     JStr("2024-01-05"), JStr("2024-01-20T10:00:00Z"), JStr("2024-12-30"),
     JStr("2025-01-01")}

\* transactions of the bodies of aggregate requests
AggregateRecords ==
    {TransactionDict(a, ty, Missing, dt) :
        a \in {Missing, JNum(10)}, ty \in TypeValues, dt \in DateValues}

\* the values of the "period" key of the body
PeriodValues == {Missing} \cup {JStr(s) : s \in Periods}

\* date_str.replace("Z", "+00:00")
ReplaceZ(date_str) ==
    IF date_str = "2024-01-20T10:00:00Z" THEN "2024-01-20T10:00:00+00:00" ELSE date_str

YMD(year, month, day) == [year |-> year, month |-> month, day |-> day]

\* datetime.fromisoformat(s): the date, or None where it raises ValueError
fromisoformat(s) ==
    CASE s = "2024-01-05" -> Some(YMD(2024, 1, 5))
      [] s = "2024-01-20T10:00:00+00:00" -> Some(YMD(2024, 1, 20))
      [] s = "2024-12-30" -> Some(YMD(2024, 12, 30))
      [] s = "2025-01-01" -> Some(YMD(2025, 1, 1))
      [] OTHER -> None

\* datetime._isoweek1monday(year): the ordinal of the Monday of ISO week 1 of the year
isoweek1monday(year) ==
    IF (toordinal(YMD(year, 1, 1)) + 6) % 7 > 3
    THEN toordinal(YMD(year, 1, 1)) - ((toordinal(YMD(year, 1, 1)) + 6) % 7) + 7
    ELSE toordinal(YMD(year, 1, 1)) - ((toordinal(YMD(year, 1, 1)) + 6) % 7)

\* the week of the ordinal, counted from 0 at ISO week 1 of the year
WeeksFrom(ordinal, year) == (ordinal - isoweek1monday(year)) \div 7

\* date.isocalendar()[1]: the ISO week number
isocalendar_week(date) ==
    IF toordinal(date) < isoweek1monday(date.year)
    THEN WeeksFrom(toordinal(date), date.year - 1) + 1
    ELSE IF /\ WeeksFrom(toordinal(date), date.year) >= 52
            /\ toordinal(date) >= isoweek1monday(date.year + 1)
    THEN 1
    ELSE WeeksFrom(toordinal(date), date.year) + 1

\* f"{date.year}-W{date.isocalendar()[1]}": the calendar year and the ISO week number
week_key(date) == [year |-> date.year, week |-> isocalendar_week(date)]

\* the key of a date's bucket: "%Y-%m-%d", the week key, "%Y-%m", or str(date.year) for
\* any other period
bucket_key(period, date) ==
    IF period = JStr("day") THEN YMD(date.year, date.month, date.day)
    ELSE IF period = JStr("week") THEN week_key(date)
    ELSE IF period = JStr("month") THEN [year |-> date.year, month |-> date.month]
    ELSE [year |-> date.year]

\* what the loop of transform_aggregate does with a transaction: "skip" (no date, or
\* ValueError), "add", or the exception that leaves the loop
Step(transaction) ==
    IF transaction.date \in {Missing, JNull, JStr(""), JNum(0)} THEN "skip"
    ELSE IF transaction.date.t # "str" THEN "AttributeError"
    ELSE IF fromisoformat(ReplaceZ(transaction.date.v)) = None THEN "skip"
    ELSE IF get_amount(transaction).t # "num" THEN "TypeError"
    ELSE "add"

\* the date of a transaction the loop adds
DateOf(transaction) == fromisoformat(ReplaceZ(transaction.date.v))[1]

\* the transactions the loop adds to the bucket of the key
InBucket(transactions, period, key) ==
    SelectSeq(transactions,
              LAMBDA tr : Step(tr) = "add" /\ bucket_key(period, DateOf(tr)) = key)

\* the transactions with transaction.get("type", "expense") == "income", and the others
Incomes(transactions) == SelectSeq(transactions, LAMBDA tr : tr.type = JStr("income"))

NotIncomes(transactions) == SelectSeq(transactions, LAMBDA tr : tr.type # JStr("income"))

\* the aggregated dictionary
Aggregated(transactions, period) ==
    [key \in {bucket_key(period, DateOf(transactions[i])) :
                i \in {j \in DOMAIN transactions : Step(transactions[j]) = "add"}} |->
        [income |-> sum_amount(Incomes(InBucket(transactions, period, key))),
         expenses |-> sum_amount(NotIncomes(InBucket(transactions, period, key))),
         count |-> Len(InBucket(transactions, period, key))]]

\* the exceptions of the loop, in the order of the list
Faults(transactions) ==
    SelectSeq([i \in DOMAIN transactions |-> Step(transactions[i])],
              LAMBDA s : s \notin {"skip", "add"})

\* data.get("period", "month")
get_period(data) == IF data.period = Missing THEN JStr("month") ELSE data.period

\* transform_aggregate(data)
transform_aggregate(data) ==
    IF data.transactions = Missing THEN Returns(no_transactions)
    ELSE IF data.transactions.t # "list" THEN Raise(Exc("TypeError"))
    ELSE IF Faults(data.transactions.items) # <<>>
    THEN Raise(Exc(Head(Faults(data.transactions.items))))
    ELSE Returns([aggregated_data |-> Aggregated(data.transactions.items, get_period(data)),
                  period |-> get_period(data)])

\* a request body: the "transactions" key and the "period" key
Body(transactions, period) == [transactions |-> transactions, period |-> period]

\* the bodies sent with a transformation type: without "transactions", with a number in
\* its place, and with a list of transactions
RequestBodies ==
    [summarize |->
        {Body(x, Missing) : x \in {Missing, JNum(5)}
            \cup {JList(s) : s \in ListsOf(SummarizeRecords, MaxRecords)}},
     categorize |->
        {Body(x, Missing) : x \in {Missing, JNum(5)}
            \cup {JList(s) : s \in ListsOf(CategorizeRecords, MaxRecords)}},
     normalize |->
        {Body(x, Missing) : x \in {Missing, JNum(5)}
            \cup {JList(s) : s \in ListsOf(NormalizeRecords, MaxRecords)}},
     aggregate |->
        {Body(x, q) : x \in {Missing, JNum(5)}
                        \cup {JList(s) : s \in ListsOf(AggregateRecords, MaxDated)},
                      q \in PeriodValues}]

\* the try block of transform_financial_data: the function of the transformation type
transform_financial_data_try(transformation_type, data) ==
    IF transformation_type = "summarize" THEN transform_summarize(data)
    ELSE IF transformation_type = "categorize" THEN transform_categorize(data)
    ELSE IF transformation_type = "normalize" THEN transform_normalize(data)
    ELSE IF transformation_type = "aggregate" THEN transform_aggregate(data)
    ELSE Raise(HTTPException(HTTP_400_BAD_REQUEST, "Invalid transformation type"))

\* the handler that lets the exception of the try block through
transform_financial_data_Propagate(transformation_type, data, r) ==
    IF r.kind = "raise"
    THEN [status |-> 0, detail |-> r.exc.name, body |-> None]
    ELSE [status |-> HTTP_200_OK, detail |-> "",
          body |-> Some([transformation_type |-> transformation_type,
                         input_data |-> data, result |-> r.value])]

\* the response: the dictionary with the result, or the 500 of `except Exception`
transform_financial_data_except(transformation_type, data, r) ==
    IF r.kind = "raise"
    THEN [status |-> HTTP_500_INTERNAL_SERVER_ERROR, detail |-> "Internal server error",
          body |-> None]
    ELSE [status |-> HTTP_200_OK, detail |-> "",
          body |-> Some([transformation_type |-> transformation_type,
                         input_data |-> data, result |-> r.value])]

TransformInit ==
    /\ TokenIdle
    /\ StoreIdle
    /\ conv = Idle
    /\ win = Idle
    /\ bd = Idle
    /\ bp = Idle
    /\ rq = Idle
    /\ \E transformation_type \in DOMAIN RequestBodies :
       \E data \in RequestBodies[transformation_type] :
            tf = [state |-> "request", transformation_type |-> transformation_type,
                  data |-> data]

\* POST /analytics/data/transform, after the gate
transform_financial_data ==
    /\ tf.state = "request"
    /\ \E r \in {transform_financial_data_try(tf.transformation_type, tf.data)} :
        tf' = [state |-> "done", transformation_type |-> tf.transformation_type,
               data |-> tf.data,
               response |-> transform_financial_data_except(tf.transformation_type,
                                                            tf.data, r)]
    /\ UNCHANGED <<tokVars, storeVars, last, conv, win, bd, bp, rq>>

SpecTransform == TransformInit /\ [][transform_financial_data]_vars

\* a summarize, categorize, ... request with a list of transactions was answered
Transformed(transformation_type) ==
    /\ tf.state = "done"
    /\ tf.transformation_type = transformation_type
    /\ tf.data.transactions # Missing
    /\ tf.data.transactions.t = "list"

\* every amount of the list is a number or is missing
NumericAmounts(transactions) ==
    \A i \in DOMAIN transactions : transactions[i].amount.t \in {"num", "missing"}

RECURSIVE TotalOfType(_, _, _)
\* the sum of amount over the records i..Len(s) of the given type, a missing amount
\* counting as 0
TotalOfType(s, type, i) ==
    IF i > Len(s) THEN 0
    ELSE (IF s[i].type = JStr(type) /\ s[i].amount # Missing THEN s[i].amount.n ELSE 0)
            + TotalOfType(s, type, i + 1)

\* C15: total_income and total_expenses are the sums of amount over the records of
\* type income and of type expense, a missing amount counting as 0 and a record without
\* a type counting for neither; net_amount is their difference; average_transaction is
\* their sum divided by the number of records; for the empty list all of them are 0.
C15_Summarize ==
    (Transformed("summarize") /\ NumericAmounts(tf.data.transactions.items)) =>
        /\ tf.response.status = HTTP_200_OK
        /\ \E s \in {tf.data.transactions.items}, r \in {tf.response.body[1].result} :
            /\ r.total_transactions = Len(s)
            /\ r.total_income = TotalOfType(s, "income", 1)
            /\ r.total_expenses = TotalOfType(s, "expense", 1)
            /\ r.net_amount = r.total_income - r.total_expenses
            /\ r.average_transaction.num * Len(s)
                  = (r.total_income + r.total_expenses) * r.average_transaction.den
            /\ s = <<>> => /\ r.total_income = 0 /\ r.total_expenses = 0
                           /\ r.net_amount = 0 /\ r.average_transaction.num = 0

\* an income of 10, an expense of 20 and a record of 20 without a type: the totals are
\* 10 and 20, the net amount -10 and the average 30 / 3
C15_Witness ==
    /\ Transformed("summarize")
    /\ tf.data.transactions.items
          = <<TransactionDict(JNum(10), JStr("income"), Missing, Missing),
              TransactionDict(JNum(20), JStr("expense"), Missing, Missing),
              TransactionDict(JNum(20), Missing, Missing, Missing)>>
    /\ tf.response.body[1].result.total_income = 10
    /\ tf.response.body[1].result.total_expenses = 20
    /\ tf.response.body[1].result.net_amount = -10
    /\ tf.response.body[1].result.average_transaction = [num |-> 10, den |-> 1]

\* the amount of record i, a missing amount counting as 0
AmountAt(s, i) == IF s[i].amount = Missing THEN 0 ELSE s[i].amount.n

\* the least and the greatest amount of the records
LeastAmount(s) ==
    CHOOSE m \in {AmountAt(s, i) : i \in DOMAIN s} : \A j \in DOMAIN s : m <= AmountAt(s, j)

GreatestAmount(s) ==
    CHOOSE m \in {AmountAt(s, i) : i \in DOMAIN s} : \A j \in DOMAIN s : m >= AmountAt(s, j)

\* the fraction q is (a - lo) / (hi - lo), or 0 when hi = lo
IsScaled(q, a, lo, hi) ==
    /\ q.den > 0
    /\ IF hi = lo THEN q.num = 0 ELSE q.num * (hi - lo) = (a - lo) * q.den
    /\ 0 <= q.num /\ q.num <= q.den
    /\ (a = lo) => q.num = 0
    /\ (a = hi /\ hi # lo) => q.num = q.den

\* C16: for a non-empty list, each record's normalized_amount is (amount - min) /
\* (max - min) over all the amounts, hence in [0,1] with the minimum at 0 and the
\* maximum at 1; when max = min every normalized value is 0; the result echoes min and
\* max and keeps the records in the order of the input.
C16_Normalize ==
    (/\ Transformed("normalize")
     /\ tf.data.transactions.items # <<>>
     /\ NumericAmounts(tf.data.transactions.items)) =>
        /\ tf.response.status = HTTP_200_OK
        /\ \E s \in {tf.data.transactions.items}, r \in {tf.response.body[1].result} :
            /\ r.original_range.min = JNum(LeastAmount(s))
            /\ r.original_range.max = JNum(GreatestAmount(s))
            /\ Len(r.normalized_transactions) = Len(s)
            /\ \A i \in DOMAIN s :
                /\ r.normalized_transactions[i].transaction = s[i]
                /\ IsScaled(r.normalized_transactions[i].normalized_amount,
                            AmountAt(s, i), LeastAmount(s), GreatestAmount(s))

\* the amounts 10, 20, 30 give 0, 1/2 and 1
C16_Witness ==
    /\ Transformed("normalize")
    /\ Len(tf.data.transactions.items) = 3
    /\ \A i \in 1..3 : tf.data.transactions.items[i].amount = JNum(10 * i)
    /\ tf.response.body[1].result.normalized_transactions[1].normalized_amount
          = [num |-> 0, den |-> 1]
    /\ tf.response.body[1].result.normalized_transactions[2].normalized_amount
          = [num |-> 1, den |-> 2]
    /\ tf.response.body[1].result.normalized_transactions[3].normalized_amount
          = [num |-> 1, den |-> 1]

\* the transactions of an aggregate request whose date is a string that parses
Dated(s) ==
    {i \in DOMAIN s : /\ s[i].date.t = "str"
                      /\ fromisoformat(ReplaceZ(s[i].date.v)) # None}

\* the Thursday of the week (Monday to Sunday) of a date, as an ordinal
ThursdayOf(date) == toordinal(date) - ((toordinal(date) + 6) % 7) + 3

\* the ISO year of a date: the calendar year its week's Thursday lies in
IsoYear(date) ==
    CHOOSE y \in (date.year - 1)..(date.year + 1) :
        /\ toordinal(YMD(y, 1, 1)) <= ThursdayOf(date)
        /\ ThursdayOf(date) < toordinal(YMD(y + 1, 1, 1))

\* the ISO week of a date: the number of its week's Thursday among the Thursdays of
\* the ISO year
IsoWeek(date) ==
    ((ThursdayOf(date) - toordinal(YMD(IsoYear(date), 1, 1))) \div 7) + 1

\* the bucket section 4.7 puts a date in
BucketOf(period, date) ==
    CASE period = JStr("day") -> YMD(date.year, date.month, date.day)
      [] period = JStr("week") -> [isoyear |-> IsoYear(date), isoweek |-> IsoWeek(date)]
      [] period = JStr("month") -> [year |-> date.year, month |-> date.month]
      [] period = JStr("year") -> [year |-> date.year]

\* the records of s that section 4.7 puts in the bucket b
Members(s, period, b) == {i \in Dated(s) : BucketOf(period, DateOf(s[i])) = b}

\* C17: a record's bucket is 'YYYY-MM-DD' of its date for day, its ISO year and ISO
\* week for week, 'YYYY-MM' for month and 'YYYY' for year: the result has one bucket
\* for each such key among the dated records, with the count of the records of that
\* key, so two records share a week bucket exactly when their dates have the same ISO
\* year and ISO week, and two records of one calendar month share the month bucket.
C17_BucketKeys ==
    (/\ Transformed("aggregate")
     /\ tf.data.period # Missing
     /\ tf.response.status = HTTP_200_OK) =>
        \E s \in {tf.data.transactions.items},
           a \in {tf.response.body[1].result.aggregated_data} :
            /\ Cardinality(DOMAIN a)
                  = Cardinality({BucketOf(tf.data.period, DateOf(s[i])) : i \in Dated(s)})
            /\ \A i \in Dated(s) :
                  \E key \in DOMAIN a :
                      a[key].count
                          = Cardinality(Members(s, tf.data.period,
                                                BucketOf(tf.data.period, DateOf(s[i]))))

RECURSIVE CountSum(_, _)
\* the sum of count over the buckets of the keys
CountSum(a, keys) ==
    IF keys = {} THEN 0
    ELSE LET k == CHOOSE k \in keys : TRUE IN a[k].count + CountSum(a, keys \ {k})

\* C18: a record whose date is missing, empty or not parseable as a date, a date that
\* is not a string included, is skipped without an error, and every other record of
\* the call is still aggregated.
C18_BadDatesSkipped ==
    Transformed("aggregate") =>
        /\ tf.response.status = HTTP_200_OK
        /\ CountSum(tf.response.body[1].result.aggregated_data,
                    DOMAIN tf.response.body[1].result.aggregated_data)
              = Cardinality(Dated(tf.data.transactions.items))

\* the request of the finished call had no "transactions" key
LacksTransactions == tf.state = "done" /\ tf.data.transactions = Missing

\* C19: every finished call of the transform endpoint ends in a response, the 200 with
\* the result or the 500 'Internal server error' and never an exception of the function
\* that ran; for each of summarize, categorize, normalize and aggregate a body without
\* "transactions" is answered 200 with the error payload as the result
C19_GracefulFailure ==
    tf.state = "done" =>
        /\ tf.response.status \in {HTTP_200_OK, HTTP_500_INTERNAL_SERVER_ERROR}
        /\ tf.response.status = HTTP_500_INTERNAL_SERVER_ERROR =>
                tf.response.detail = "Internal server error" /\ tf.response.body = None
        /\ tf.response.status = HTTP_200_OK => tf.response.body # None
        /\ LacksTransactions =>
                /\ tf.response.status = HTTP_200_OK
                /\ tf.response.body[1].result = no_transactions
                /\ tf.response.body[1].transformation_type = tf.transformation_type

\* an aggregate call without "transactions" was answered with the error payload
C19_Witness ==
    /\ LacksTransactions
    /\ tf.transformation_type = "aggregate"
    /\ tf.response.body # None
    /\ tf.response.body[1].result = no_transactions

(***************************************************************************)
(* Claims about the ownership of the ledger, under Spec.                   *)
(***************************************************************************)
\* the step is a call of get, update or delete with the transaction id
LedgerStep(transaction_id) ==
    /\ held # NoToken
    /\ last'.kind = "data"
    /\ \/ get_transaction_by(transaction_id) /\ UNCHANGED txns
       \/ \E transaction_update \in TxnUpdates :
                update_transaction_by(transaction_id, transaction_update)
       \/ delete_transaction_by(transaction_id)

\* the table holds a row with the id that the user owns
OwnedBy(tbl, transaction_id, user_id) ==
    \E t \in tbl : t.id = transaction_id /\ t.user_id = user_id

\* C20: get, update and delete of a transaction id that does not exist or that another
\* user owns answer 404 'Transaction not found' and leave the table as it was; a get,
\* update or delete that succeeds touches and changes only the row with that id, owned
\* by the caller; every step that changes the table changes rows of the resolved caller
\* only; a created transaction is one new row owned by its creator.
C20_LedgerOwnership ==
    [][/\ \A transaction_id \in TxnIds :
            (LedgerStep(transaction_id) /\ last'.actor # None) =>
                IF OwnedBy(txns, transaction_id, last'.actor[1].id)
                THEN /\ last'.status = HTTP_200_OK
                     /\ last'.touched = {last'.actor[1].id}
                     /\ \A t \in Changed(txns, txns') :
                            t.id = transaction_id /\ t.user_id = last'.actor[1].id
                ELSE /\ last'.status = HTTP_404_NOT_FOUND
                     /\ last'.detail = "Transaction not found"
                     /\ last'.touched = {}
                     /\ txns' = txns
       /\ txns' # txns =>
            /\ last'.kind = "data"
            /\ last'.actor # None
            /\ \A t \in Changed(txns, txns') : t.user_id = last'.actor[1].id
       /\ (create_transaction /\ last'.status = HTTP_201_CREATED) =>
            /\ txns \subseteq txns'
            /\ Cardinality(txns' \ txns) = 1
            /\ \A t \in txns' \ txns : t.user_id = last'.actor[1].id
      ]_vars

\* a call was answered 404 'Transaction not found' while the table held a row of another
\* user and none of the caller
C20_Witness ==
    /\ last.kind = "data"
    /\ last.actor # None
    /\ last.status = HTTP_404_NOT_FOUND
    /\ last.detail = "Transaction not found"
    /\ txns # {}
    /\ \A t \in txns : ~OwnedBy(txns, t.id, last.actor[1].id)

(***************************************************************************)
(* Claims about the reported progress of a budget, under SpecBudget.       *)
(***************************************************************************)
\* the status that the reported progress_percentage, in hundredths, stands for
StatusOfReported(progress_percentage) ==
    IF progress_percentage >= 100 * 100 THEN "exceeded"
    ELSE IF progress_percentage >= 80 * 100 THEN "warning"
    ELSE "good"

\* C25: in every row of a budget progress result the status is the one of the reported,
\* rounded progress_percentage: 'exceeded' exactly from 100, 'warning' exactly from 80 and
\* below 100, 'good' otherwise; and in the sorted list no 'warning' or 'good' row comes
\* before an 'exceeded' row.
C25_StatusAgreesWithReported ==
    bp.state = "done" =>
        /\ \A i \in DOMAIN bp.result.budgets :
                bp.result.budgets[i].status
                    = StatusOfReported(bp.result.budgets[i].progress_percentage)
        /\ \A i, j \in DOMAIN bp.result.budgets :
                (i < j /\ bp.result.budgets[j].status = "exceeded") =>
                    bp.result.budgets[i].status = "exceeded"

(***************************************************************************)
(* Aggregate against summarize on the same records, under SpecTransform.   *)
(***************************************************************************)
RECURSIVE BucketSum(_, _, _)
\* the sum of a field over the buckets of the keys
BucketSum(a, keys, field) ==
    IF keys = {} THEN 0
    ELSE LET k == CHOOSE k \in keys : TRUE IN a[k][field] + BucketSum(a, keys \ {k}, field)

\* the call aggregated a list of records whose dates all parse
AllDated ==
    /\ Transformed("aggregate")
    /\ Cardinality(Dated(tf.data.transactions.items)) = Len(tf.data.transactions.items)

\* C27: for a list of records whose dates all parse, of any type, the income of the
\* buckets adds up to the total_income of summarize on the same records, their expenses
\* to its total_expenses and their counts to its total_transactions.
C27_AggregateAgreesWithSummarize ==
    AllDated =>
        /\ tf.response.status = HTTP_200_OK
        /\ \E a \in {tf.response.body[1].result.aggregated_data},
              s \in {transform_summarize(tf.data).value} :
                /\ BucketSum(a, DOMAIN a, "income") = s.total_income
                /\ BucketSum(a, DOMAIN a, "expenses") = s.total_expenses
                /\ BucketSum(a, DOMAIN a, "count") = s.total_transactions

(***************************************************************************)
(* Claims about what an update of a transaction changes, under Spec.       *)
(***************************************************************************)
\* the step is a call of update_transaction with the id and the body
UpdateStep(transaction_id, transaction_update) ==
    /\ held # NoToken
    /\ last'.kind = "data"
    /\ update_transaction_by(transaction_id, transaction_update)

\* the rows of the table with another id are the same before and after the step
OthersKept(transaction_id) ==
    {t \in txns : t.id # transaction_id} = {t \in txns' : t.id # transaction_id}

\* after the step the table holds one row with the id: it has the owner of the row it
\* held before, the supplied values in the supplied fields, and the previous value in
\* every other field but those of `stamps`
UpdatedOnly(transaction_id, transaction_update, stamps) ==
    \A t \in {r \in txns : r.id = transaction_id} :
        /\ Cardinality({r \in txns' : r.id = transaction_id}) = 1
        /\ \A r \in {r \in txns' : r.id = transaction_id} :
            /\ r.user_id = t.user_id
            /\ \A f \in DOMAIN transaction_update : r[f] = transaction_update[f]
            /\ \A f \in DOMAIN t \ (DOMAIN transaction_update \cup stamps) : r[f] = t[f]

\* the frame of an update, the fields of `stamps` left aside
UpdateFrame(stamps) ==
    \A transaction_id \in TxnIds, transaction_update \in TxnUpdates :
        UpdateStep(transaction_id, transaction_update) =>
            /\ OthersKept(transaction_id)
            /\ IF last'.status = HTTP_200_OK
               THEN UpdatedOnly(transaction_id, transaction_update, stamps)
               ELSE txns' = txns

MaxRequests == 3

Requests == 1..MaxRequests

\* the variables the handlers of this section leave alone
notRequests == <<tokVars, txns, budgets, last, conv, win, bd, bp, tf>>

\* a request that has not been sent
NotSent == [pc |-> "idle"]

\* request r of the handler op at the statement pc
At(r, op, pc) == rq[r].pc = pc /\ rq[r].op = op

\* the request at its next statement, or answered
Goto(r, pc) == rq' = [rq EXCEPT ![r].pc = pc]

Answer(r, status_code, detail) ==
    rq' = [rq EXCEPT ![r].pc = "done",
                     ![r].response = [status_code |-> status_code, detail |-> detail]]

\* raise HTTPException(status_code=500, detail="Internal server error") of `except Exception`
InternalServerError(r) == Answer(r, HTTP_500_INTERNAL_SERVER_ERROR, "Internal server error")

\* db.commit(): it raises IntegrityError when a unique column would hold the value
\* twice; any commit may fail with an error of the database (OperationalError)
commit(duplicate) == IF duplicate THEN {"IntegrityError"} ELSE {"ok", "OperationalError"}

RequestsInit ==
    /\ TokenIdle
    /\ StoreIdle
    /\ conv = Idle
    /\ win = Idle
    /\ bd = Idle
    /\ bp = Idle
    /\ tf = Idle
    /\ rq = [r \in Requests |-> NotSent]

\* POST /auth/register arrives
register_user_begin ==
    \E r \in Requests, username \in Usernames, email \in Emails :
        /\ rq[r] = NotSent
        /\ rq' = [rq EXCEPT ![r] = [op |-> "register_user", pc |-> "existing_user",
                                    username |-> username, email |-> email,
                                    user_id |-> None, response |-> None]]
        /\ UNCHANGED <<notRequests, users, prefs>>

\* existing_user = db.query(User).filter(User.username == user.username).first()
register_user_existing_user ==
    \E r \in Requests :
        /\ At(r, "register_user", "existing_user")
        /\ IF UserByUsername(users, rq[r].username) # None
           THEN Answer(r, HTTP_400_BAD_REQUEST, "Username already registered")
           ELSE Goto(r, "existing_email")
        /\ UNCHANGED <<notRequests, users, prefs>>

\* existing_email = db.query(User).filter(User.email == user.email).first()
register_user_existing_email ==
    \E r \in Requests :
        /\ At(r, "register_user", "existing_email")
        /\ IF UserByEmail(users, rq[r].email) # None
           THEN Answer(r, HTTP_400_BAD_REQUEST, "Email already registered")
           ELSE Goto(r, "add_user")
        /\ UNCHANGED <<notRequests, users, prefs>>

\* db.add(db_user); db.commit(); db.refresh(db_user)
register_user_add_user ==
    \E r \in Requests :
        /\ At(r, "register_user", "add_user")
        /\ \E outcome \in commit(\/ UserByUsername(users, rq[r].username) # None
                                 \/ UserByEmail(users, rq[r].email) # None) :
            IF outcome = "ok"
            THEN /\ users' = users \cup
                        {[id |-> NextId(users), username |-> rq[r].username,
                          email |-> rq[r].email,
                          hashed_password |-> get_password_hash("password-1", "salt-1"),
                          is_active |-> TRUE]}
                 /\ rq' = [rq EXCEPT ![r].pc = "add_preference",
                                     ![r].user_id = Some(NextId(users))]
            ELSE InternalServerError(r) /\ UNCHANGED users
        /\ UNCHANGED <<notRequests, prefs>>

\* user_preference = UserPreference(user_id=db_user.id); db.add(...); db.commit()
register_user_add_preference ==
    \E r \in Requests :
        /\ At(r, "register_user", "add_preference")
        /\ \E outcome \in commit(FALSE) :
            IF outcome = "ok"
            THEN /\ prefs' = prefs \cup {[id |-> NextId(prefs), user_id |-> rq[r].user_id[1]]}
                 /\ Answer(r, HTTP_201_CREATED, "")
            ELSE InternalServerError(r) /\ UNCHANGED prefs
        /\ UNCHANGED <<notRequests, users>>

\* GET or PUT /auth/preferences arrives with the token of an active user
preferences_begin ==
    \E r \in Requests, op \in {"get_user_preferences", "update_user_preferences"},
       current_user \in {u \in users : u.is_active} :
        /\ rq[r] = NotSent
        /\ rq' = [rq EXCEPT ![r] = [op |-> op, pc |-> "preferences",
                                    username |-> current_user.username,
                                    email |-> current_user.email,
                                    user_id |-> Some(current_user.id), response |-> None]]
        /\ UNCHANGED <<notRequests, users, prefs>>

\* get_user_preferences: preferences = db.query(UserPreference).filter(...).first(), and
\* the row is returned when there is one
get_user_preferences_first ==
    \E r \in Requests :
        /\ At(r, "get_user_preferences", "preferences")
        /\ IF PreferencesOf(prefs, rq[r].user_id[1]) # None
           THEN Answer(r, HTTP_200_OK, "")
           ELSE Goto(r, "add")
        /\ UNCHANGED <<notRequests, users, prefs>>

\* get_user_preferences, if not preferences: db.add(preferences); db.commit()
get_user_preferences_add ==
    \E r \in Requests :
        /\ At(r, "get_user_preferences", "add")
        /\ \E outcome \in commit(FALSE) :
            IF outcome = "ok"
            THEN /\ prefs' = prefs \cup {[id |-> NextId(prefs), user_id |-> rq[r].user_id[1]]}
                 /\ Answer(r, HTTP_200_OK, "")
            ELSE InternalServerError(r) /\ UNCHANGED prefs
        /\ UNCHANGED <<notRequests, users>>

\* update_user_preferences: preferences = db.query(UserPreference).filter(...).first()
update_user_preferences_first ==
    \E r \in Requests :
        /\ At(r, "update_user_preferences", "preferences")
        /\ IF PreferencesOf(prefs, rq[r].user_id[1]) # None
           THEN Goto(r, "setattr")
           ELSE Goto(r, "add")
        /\ UNCHANGED <<notRequests, users, prefs>>

\* update_user_preferences: db.add(preferences) of the new row, or the setattr loop on
\* the row found (its other fields are not kept in the model), then db.commit()
update_user_preferences_commit ==
    \E r \in Requests :
        /\ rq[r].pc \in {"add", "setattr"}
        /\ rq[r].op = "update_user_preferences"
        /\ \E outcome \in commit(FALSE) :
            IF outcome = "ok"
            THEN /\ prefs' = IF rq[r].pc = "add"
                             THEN prefs \cup {[id |-> NextId(prefs),
                                               user_id |-> rq[r].user_id[1]]}
                             ELSE prefs
                 /\ Answer(r, HTTP_200_OK, "")
            ELSE InternalServerError(r) /\ UNCHANGED prefs
        /\ UNCHANGED <<notRequests, users>>

RequestsNext ==
    \/ register_user_begin
    \/ register_user_existing_user
    \/ register_user_existing_email
    \/ register_user_add_user
    \/ register_user_add_preference
    \/ preferences_begin
    \/ get_user_preferences_first
    \/ get_user_preferences_add
    \/ update_user_preferences_first
    \/ update_user_preferences_commit

SpecRequests == RequestsInit /\ [][RequestsNext]_vars

(***************************************************************************)
(* Claims about requests in flight, under SpecRequests.                    *)
(***************************************************************************)
\* request r of the handler op is answered by the step
Answered(r, op) ==
    /\ rq[r].pc \notin {"idle", "done"}
    /\ rq[r].op = op
    /\ rq'[r].pc = "done"

\* a user that request r did not insert holds its username or its email
TakenByAnother(r) ==
    \E u \in users : /\ u.username = rq[r].username \/ u.email = rq[r].email
                     /\ rq[r].user_id # Some(u.id)

\* C21: under every interleaving of registrations no two users share a username and no
\* two share an email; a registration that ends while another user holds its username or
\* its email adds no user and is answered 400, also when that user was inserted between
\* the request's checks and its insert.
C21_UniquePrincipals ==
    [][/\ \A u, v \in users' :
            (u.username = v.username \/ u.email = v.email) => u = v
       /\ \A r \in Requests :
            (Answered(r, "register_user") /\ TakenByAnother(r)) =>
                /\ users' = users
                /\ rq'[r].response.status_code = HTTP_400_BAD_REQUEST
      ]_vars

\* C23: in every reachable state the user_preferences table holds at most one row for a
\* user, under every interleaving of register, get-preferences and update-preferences
\* requests.
C23_OnePreferenceRow ==
    \A p, q \in prefs : p.user_id = q.user_id => p = q

\* C24: a registration that was answered with a failure has added no user to the table,
\* and one that was answered with success has added a user who has exactly one
\* preference row.
C24_AllOrNothing ==
    \A r \in Requests :
        (rq[r].pc = "done" /\ rq[r].op = "register_user") =>
            IF rq[r].response.status_code = HTTP_201_CREATED
            THEN /\ rq[r].user_id # None
                 /\ \E u \in users : u.id = rq[r].user_id[1]
                 /\ Cardinality({p \in prefs : p.user_id = rq[r].user_id[1]}) = 1
            ELSE rq[r].user_id = None

(***************************************************************************)
(* The analytics operations as requests in flight.  The tables are set by  *)
(* Init and the handlers only query them; what a handler accumulates       *)
(* (budget_progress = [], breakdown = []) is a local of the call, kept in  *)
(* rq[r].  The clock is one instant and every row is on or after the start *)
(* of every period.                                                        *)
(***************************************************************************)
\* the most analytics calls in flight
MaxCalls == 2

Calls == 1..MaxCalls

\* the variables the analytics handlers leave alone, the tables apart
notCalls == <<tokVars, last, conv, win, bd, bp, tf>>

\* rows of the transactions table of this section
LedgerRows ==
    {[id |-> 1, user_id |-> 1, transaction_type |-> "expense", category |-> Some("Food"),
      date |-> 1, amount |-> 50],
     [id |-> 2, user_id |-> 1, transaction_type |-> "expense", category |-> None,
      date |-> 2, amount |-> 85],
     [id |-> 3, user_id |-> 1, transaction_type |-> "income", category |-> None,
      date |-> 1, amount |-> 50],
     [id |-> 4, user_id |-> 2, transaction_type |-> "expense", category |-> Some("Food"),
      date |-> 1, amount |-> 50]}

\* budgets tables of this section
LedgerBudgets ==
    {BudgetTable(rows) :
        rows \in UNION {[1..n -> {b \in BudgetRows : /\ b.is_active
                                                      /\ b.amount = 100
                                                      /\ b.start_date = 1
                                                      /\ b.end_date = Some(3)}] :
                            n \in 0..MaxBudgetRows}}

\* the bodies of the transform requests of this section
LedgerBodies ==
    {Body(Missing, Missing),
     Body(JList(<<TransactionDict(JNum(10), JStr("income"), JStr("Food"),
                                  JStr("2024-01-05")),
                  TransactionDict(JNum(20), JStr("expense"), Missing,
                                  JStr("2024-12-30"))>>), Missing)}

\* the rows of a table in the order a query returns them: by id
OrderById(tbl) == [i \in 1..Cardinality(tbl) |-> CHOOSE b \in tbl : b.id = i]

\* the rows of a query in the order the database returns them
Fetched(rows) ==
    CHOOSE s \in [1..Cardinality(rows) -> rows] : \A i, j \in DOMAIN s : i # j => s[i] # s[j]

\* db.query(Transaction.category, func.sum(Transaction.amount), func.count(Transaction.id))
\*   .filter(user_id == current_user.id, ..., transaction_type == "expense")
\*   .group_by(Transaction.category).all()
GroupByCategory(tbl, user_id) ==
    Fetched({[category |-> c,
              total_amount |->
                  func_sum({t \in tbl : /\ t.user_id = user_id
                                        /\ t.transaction_type = "expense"
                                        /\ t.category = c}),
              transaction_count |->
                  Cardinality({t \in tbl : /\ t.user_id = user_id
                                           /\ t.transaction_type = "expense"
                                           /\ t.category = c})] :
                c \in {t.category : t \in {x \in tbl : /\ x.user_id = user_id
                                                       /\ x.transaction_type = "expense"}}})

\* the summary dictionary of get_transaction_summary
PeriodSummary(transactions) ==
    [total_income |-> func_sum({t \in transactions : t.transaction_type = "income"}),
     total_expenses |-> func_sum({t \in transactions : t.transaction_type = "expense"}),
     net_amount |-> func_sum({t \in transactions : t.transaction_type = "income"})
                        - func_sum({t \in transactions : t.transaction_type = "expense"}),
     transaction_count |-> Cardinality(transactions)]

\* the call is answered 200 with the result
Return(r, result) ==
    rq' = [rq EXCEPT ![r].pc = "done",
                     ![r].response = [status_code |-> HTTP_200_OK, result |-> result]]

AnalyticsInit ==
    /\ TokenIdle
    /\ users = {}
    /\ prefs = {}
    /\ last = NoResponse
    /\ conv = Idle
    /\ win = Idle
    /\ bd = Idle
    /\ bp = Idle
    /\ tf = Idle
    /\ txns \in SUBSET LedgerRows
    /\ \E tbl \in LedgerBudgets : budgets = {tbl[i] : i \in DOMAIN tbl}
    /\ rq = [r \in Calls |-> NotSent]

\* an analytics request arrives, after the gate resolved its token to current_user
analytics_begin ==
    \E r \in Calls, current_user \in UserIds,
       op \in {"get_category_breakdown", "get_budget_progress",
               "get_transaction_summary", "transform_financial_data"} :
    \E body \in IF op = "transform_financial_data"
                THEN {Some(<<ty, data>>) : ty \in DOMAIN RequestBodies, data \in LedgerBodies}
                ELSE {None} :
        /\ rq[r] = NotSent
        /\ rq' = [rq EXCEPT ![r] = [op |-> op, pc |-> "try", current_user |-> current_user,
                                    body |-> body, budgets |-> <<>>,
                                    budget_progress |-> <<>>, response |-> None]]
        /\ UNCHANGED <<notCalls, storeVars>>

\* GET /analytics/transactions/category-breakdown: the query, the loop over its rows,
\* the sort and the result
get_category_breakdown_call ==
    \E r \in Calls :
        /\ At(r, "get_category_breakdown", "try")
        /\ \E transactions \in {GroupByCategory(txns, rq[r].current_user)} :
           \E breakdown \in Breakdowns(transactions, sum_total_amount(transactions)) :
                Return(r, [total_expenses |-> sum_total_amount(transactions),
                           category_count |-> Len(breakdown),
                           breakdown |-> SortDesc(breakdown)])
        /\ UNCHANGED <<notCalls, storeVars>>

\* GET /transactions/summary/period: the query and the summary
get_transaction_summary_call ==
    \E r \in Calls :
        /\ At(r, "get_transaction_summary", "try")
        /\ Return(r, PeriodSummary(TransactionsOf(txns, rq[r].current_user)))
        /\ UNCHANGED <<notCalls, storeVars>>

\* POST /analytics/data/transform
transform_financial_data_call ==
    \E r \in Calls :
        /\ At(r, "transform_financial_data", "try")
        /\ \E transformation_type \in {rq[r].body[1][1]}, data \in {rq[r].body[1][2]} :
            Return(r, transform_financial_data_except(
                            transformation_type, data,
                            transform_financial_data_try(transformation_type, data)))
        /\ UNCHANGED <<notCalls, storeVars>>

\* get_budget_progress: the list that every call appends to is the one an earlier call
\* left behind
get_budget_progress_budgets_Shared ==
    \E r \in Calls :
        /\ At(r, "get_budget_progress", "try")
        /\ \E kept \in {IF \E o \in Calls : rq[o] # NotSent /\ rq[o].budget_progress # <<>>
                        THEN rq[CHOOSE o \in Calls :
                                    rq[o] # NotSent /\ rq[o].budget_progress # <<>>
                               ].budget_progress
                        ELSE <<>>} :
            rq' = [rq EXCEPT ![r].pc = "for",
                             ![r].budgets = ActiveBudgets(OrderById(budgets),
                                                          rq[r].current_user),
                             ![r].budget_progress = kept]
        /\ UNCHANGED <<notCalls, storeVars>>

\* get_budget_progress: budgets = db.query(Budget).filter(...).all(); budget_progress = []
get_budget_progress_budgets ==
    \E r \in Calls :
        /\ At(r, "get_budget_progress", "try")
        /\ rq' = [rq EXCEPT ![r].pc = "for",
                            ![r].budgets = ActiveBudgets(OrderById(budgets),
                                                         rq[r].current_user),
                            ![r].budget_progress = <<>>]
        /\ UNCHANGED <<notCalls, storeVars>>

\* get_budget_progress, one pass of `for budget in budgets`: the spent_query of the
\* budget and budget_progress.append(...)
get_budget_progress_for ==
    \E r \in Calls :
        /\ At(r, "get_budget_progress", "for")
        /\ rq[r].budgets # <<>>
        /\ \E row \in ProgressRows(Head(rq[r].budgets),
                                   spent_amount(txns, Head(rq[r].budgets),
                                                rq[r].current_user)) :
            rq' = [rq EXCEPT ![r].budgets = Tail(rq[r].budgets),
                             ![r].budget_progress = Append(rq[r].budget_progress, row)]
        /\ UNCHANGED <<notCalls, storeVars>>

\* get_budget_progress after the loop: the sort and the result
get_budget_progress_return ==
    \E r \in Calls :
        /\ At(r, "get_budget_progress", "for")
        /\ rq[r].budgets = <<>>
        /\ Return(r, ProgressResult(SortByProgress(rq[r].budget_progress)))
        /\ UNCHANGED <<notCalls, storeVars>>

AnalyticsNext ==
    \/ analytics_begin
    \/ get_category_breakdown_call
    \/ get_transaction_summary_call
    \/ transform_financial_data_call
    \/ get_budget_progress_budgets
    \/ get_budget_progress_for
    \/ get_budget_progress_return

SpecAnalytics == AnalyticsInit /\ [][AnalyticsNext]_vars

\* C22: the analytics operations persist nothing and keep nothing between calls: no step
\* of category breakdown, budget progress, period summary or a transform changes the
\* users, preferences, transactions or budgets table, and in every interleaving of the
\* calls in flight two answered calls of the same operation with the same inputs, over
\* the unchanged tables and at the same instant, carry the same result.
C22_NoCrossCallState ==
    [][/\ UNCHANGED storeVars
       /\ \A r, o \in Calls :
            (/\ rq'[r].pc = "done" /\ rq'[o].pc = "done"
             /\ rq'[r].op = rq'[o].op
             /\ rq'[r].current_user = rq'[o].current_user
             /\ rq'[r].body = rq'[o].body) =>
                rq'[r].response = rq'[o].response
      ]_vars

\* two calls of budget progress of one user were answered, each with a row for a budget
C22_Witness ==
    /\ \A r \in Calls : rq[r].pc = "done" /\ rq[r].op = "get_budget_progress"
    /\ \A r, o \in Calls : rq[r].current_user = rq[o].current_user
    /\ \A r \in Calls : rq[r].response.result.total_budgets > 0
    /\ txns # {}
====
